---- MODULE Spec2Model ----
(***************************************************************************)
(* Model of the agentic feasibility pipeline: OrchestratorAgent            *)
(* (agentic_system/orchestrator.py), ResearchAgent                         *)
(* (agentic_system/agents/research_agent.py), TechnologyAnalysisAgent      *)
(* (agentic_system/agents/technology_agent.py) and the mock search tool    *)
(* (agentic_system/tools/web_search_tool.py).                              *)
(*                                                                         *)
(* Free-form text returned by the reasoning provider is represented by the *)
(* features the code extracts from it (substring tests, regex matches,     *)
(* lengths after stripping).  Confidences are in ten-thousandths (0.75 is  *)
(* 7500), scores are the numbers the code parses.                          *)
(***************************************************************************)
EXTENDS Integers, Sequences, FiniteSets, TLC

\* ------------------------------------------------------------------ bounds
\* number of analyze_project calls made on the one OrchestratorAgent instance
MaxRuns == 4
MaxRisks == 3
\* number of calls made on a ResearchAgent that is driven directly
MaxResearchCalls == 2

\* ------------------------------------------------------- program constants
MAX_ITERATIONS == 3
CONFIDENCE_THRESHOLD == 7500
NUM_RESULTS == 5
MAX_QUERIES == 3
MIN_QUERY_LEN == 10
DEFAULT_SIM_SCORE == 65
SIM_MEDIUM_ABOVE == 50
DECISION_HIGH_ABOVE == 7500
MIN_RISK_LEN == 10
MAX_TECH_RISKS == 8
MAX_TECH_OPPORTUNITIES == 5
RISKS_PER_ANALYSIS == 2
MAX_CRITICAL_RISKS == 5
MAX_DIVE_QUERIES == 5
DIVE_PREFIX_LEN == 5

\* AnalysisPhase (models/messages.py)
PLANNING == "planning"
INFORMATION_GATHERING == "information_gathering"
PARALLEL_ANALYSIS == "parallel_analysis"
VALIDATION == "validation"
REFINEMENT == "refinement"
SYNTHESIS == "synthesis"
COMPLETE == "complete"

AnalysisPhase ==
    {PLANNING, INFORMATION_GATHERING, PARALLEL_ANALYSIS, VALIDATION,
     REFINEMENT, SYNTHESIS, COMPLETE}

\* position of a phase in the declaration order of the enum
PhaseRank(p) ==
    CASE p = PLANNING -> 1
      [] p = INFORMATION_GATHERING -> 2
      [] p = PARALLEL_ANALYSIS -> 3
      [] p = VALIDATION -> 4
      [] p = REFINEMENT -> 5
      [] p = SYNTHESIS -> 6
      [] p = COMPLETE -> 7

\* ConfidenceLevel (models/messages.py)
VERY_LOW == "very_low"
LOW == "low"
MEDIUM == "medium"
HIGH == "high"
VERY_HIGH == "very_high"

ConfidenceLevel == {VERY_LOW, LOW, MEDIUM, HIGH, VERY_HIGH}

\* regex found no match
NoMatch == -1

\* the element of a one-element set; { e(v) : v \in {x} } names the value of
\* x, which is then worked out once
Only(S) == CHOOSE v \in S : TRUE

Min(a, b) == IF a < b THEN a ELSE b
Max(a, b) == IF a > b THEN a ELSE b
Range(s) == {s[i] : i \in DOMAIN s}
\* Python slice s[:n]; a negative n counts from the end
Take(s, n) ==
    Only({ IF n >= 0 THEN SubSeq(v, 1, Min(n, Len(v)))
           ELSE SubSeq(v, 1, Max(Len(v) + n, 0)) : v \in {s} })

\* ------------------------------------------------- Python string operations
\* (ASCII text only; the bullet character of the strip sets cannot occur)
UpperChars == "ABCDEFGHIJKLMNOPQRSTUVWXYZ"
LowerChars == "abcdefghijklmnopqrstuvwxyz"
DigitChars == "0123456789"
\* the ASCII characters str.strip() removes and \s matches: space, \t, \n,
\* \r, \f, and the characters 0x0b (\v) and 0x1c to 0x1f, which stand in
\* the string as themselves
Whitespace == " \t\n\r\f"
\* the characters of lstrip('-*0123456789. ')
BulletChars == "-*0123456789. "
\* the characters of strip('"\'')
QuoteChars == "\"'"

CharAt(s, i) == SubSeq(s, i, i)

\* c in chars, for a one-character string c
InChars(c, chars) == \E k \in 1..Len(chars) : CharAt(chars, k) = c

\* sub in s
Contains(s, sub) ==
    \E i \in 1..(Len(s) - Len(sub) + 1) : SubSeq(s, i, i + Len(sub) - 1) = sub

LowerChar(c) ==
    IF InChars(c, UpperChars)
    THEN CharAt(LowerChars, CHOOSE k \in 1..26 : CharAt(UpperChars, k) = c)
    ELSE c

\* str.lower()
RECURSIVE Lower(_)
Lower(s) ==
    IF Len(s) = 0 THEN ""
    ELSE IF Len(s) = 1 THEN LowerChar(s)
    ELSE LET h == Len(s) \div 2
         IN  Lower(SubSeq(s, 1, h)) \o Lower(SubSeq(s, h + 1, Len(s)))

SetMin(S) == CHOOSE i \in S : \A k \in S : i <= k
SetMax(S) == CHOOSE i \in S : \A k \in S : i >= k

\* positions of s whose character is not in chars
KeptPositions(s, chars) == {i \in 1..Len(s) : ~InChars(CharAt(s, i), chars)}

\* str.lstrip(chars)
LStrip(s, chars) ==
    IF KeptPositions(s, chars) = {} THEN ""
    ELSE SubSeq(s, SetMin(KeptPositions(s, chars)), Len(s))

\* str.rstrip(chars)
RStrip(s, chars) ==
    IF KeptPositions(s, chars) = {} THEN ""
    ELSE SubSeq(s, 1, SetMax(KeptPositions(s, chars)))

\* str.strip(chars); str.strip() is Strip(s, Whitespace)
Strip(s, chars) == RStrip(LStrip(s, chars), chars)

\* str.split(sep) for a one-character separator
RECURSIVE Split(_, _)
Split(s, sep) ==
    IF Contains(s, sep)
    THEN LET i == CHOOSE i \in 1..Len(s) :
                      /\ CharAt(s, i) = sep
                      /\ \A j \in 1..(i - 1) : CharAt(s, j) # sep
         IN  <<SubSeq(s, 1, i - 1)>> \o Split(SubSeq(s, i + 1, Len(s)), sep)
    ELSE <<s>>

\* number of consecutive characters of s from position i that are in chars
SpanLen(s, i, chars) ==
    LET stops == {k \in i..Len(s) : ~InChars(CharAt(s, k), chars)}
    IN  IF i > Len(s) THEN 0
        ELSE IF stops = {} THEN Len(s) - i + 1
        ELSE SetMin(stops) - i

\* int() of a string of decimal digits
RECURSIVE ParseInt(_)
ParseInt(d) ==
    IF d = "" THEN 0
    ELSE 10 * ParseInt(SubSeq(d, 1, Len(d) - 1))
         + ((CHOOSE k \in 1..10 : CharAt(DigitChars, k) = CharAt(d, Len(d))) - 1)

\* str(n) for a natural number n, as an f-string formats it
RECURSIVE FormatInt(_)
FormatInt(n) ==
    IF n < 10 THEN CharAt(DigitChars, n + 1)
    ELSE FormatInt(n \div 10) \o CharAt(DigitChars, (n % 10) + 1)

\* re.search(word + r'[:\s]+(\d+)', s): the number of the leftmost match,
\* NoMatch when there is none
LabelledNumberAt(s, word, i) ==
    LET j == i + Len(word)
        seps == SpanLen(s, j, ":" \o Whitespace)
        digs == SpanLen(s, j + seps, DigitChars)
    IN  IF j - 1 <= Len(s) /\ SubSeq(s, i, j - 1) = word /\ seps > 0 /\ digs > 0
        THEN ParseInt(SubSeq(s, j + seps, j + seps + digs - 1))
        ELSE NoMatch

SearchLabelledNumber(s, word) ==
    LET hits == {i \in 1..Len(s) : LabelledNumberAt(s, word, i) # NoMatch}
    IN  IF hits = {} THEN NoMatch
        ELSE LabelledNumberAt(s, word, CHOOSE i \in hits : \A k \in hits : i <= k)

\* re.search(r'(\d+)' + suffix, s): the number of the leftmost match
NumberBeforeAt(s, suffix, i) ==
    LET digs == SpanLen(s, i, DigitChars)
    IN  IF /\ digs > 0
           /\ i + digs + Len(suffix) - 1 <= Len(s)
           /\ SubSeq(s, i + digs, i + digs + Len(suffix) - 1) = suffix
        THEN ParseInt(SubSeq(s, i, i + digs - 1))
        ELSE NoMatch

SearchNumberBefore(s, suffix) ==
    LET hits == {i \in 1..Len(s) : NumberBeforeAt(s, suffix, i) # NoMatch}
    IN  IF hits = {} THEN NoMatch
        ELSE NumberBeforeAt(s, suffix, CHOOSE i \in hits : \A k \in hits : i <= k)

\* ------------------------------------------------------------------ inputs
\* project descriptions handed to analyze_project
EmptyDescription == ""
BlankDescription == "   "
RealDescription == "An AI tutoring platform for schools"
Descriptions == {EmptyDescription, BlankDescription, RealDescription}

ProjectName == "Tutor"

\* what LLMTool.reason returns when the provider raises
ErrorText == "Error in LLM reasoning: timeout"

\* texts the reasoning provider returns inside TechnologyAnalysisAgent.analyze
TechReasonings ==
    { [maturity |-> "The required technologies are mature and proven.",
       risks |-> "1. Integration with legacy systems is a major risk\n- Data quality may be insufficient\n* Vendor lock-in\n- Latency",
       gaps |-> "No critical information is missing.",
       final_analysis |-> "Overall technology feasibility score: 78\nHighly feasible.\n- Strength: proven open-source stack"],
      [maturity |-> "Maturity of the core technology is unclear.",
       risks |-> "No significant risk was identified.",
       gaps |-> "- team size\n- budget\n- data sources\n- timeline",
       final_analysis |-> "The project looks challenging."] }

\* the texts of TechnologyAnalysisAgent.analyze when every provider call fails
FailedTechReasoning ==
    [maturity |-> ErrorText, risks |-> ErrorText, gaps |-> ErrorText,
     final_analysis |-> ErrorText]

\* texts the reasoning provider returns to _simulate_dimension_analysis
SimReasonings ==
    { "Feasibility score: 40\n- Budget is tight for the scope",
      "Error in LLM reasoning: timeout" }

\* further final analyses of TechnologyAnalysisAgent.analyze, for the runs
\* that start at the analysis phase
StageTechReasonings ==
    TechReasonings \cup
    { [maturity |-> "The required technologies are mature and proven.",
       risks |-> "- Data quality may be insufficient",
       gaps |-> "No critical information is missing.",
       final_analysis |-> text] :
        text \in { "Score: 35", "Technology score 50 of 100", "Feasibility score: 65",
                   "SCORE:\t80", "Technical feasibility: 250%" } }

\* further answers to _simulate_dimension_analysis, for the same runs
StageSimReasonings ==
    { "Score: 35", "score 50", "Overall score: 60", ErrorText, "Feasibility score: 70\n- Costs are well understood",
      "SCORE:\t80", "score: 90", "Score: 150 (exceptional)" }

\* texts the reasoning provider returns to the consistency prompt
ConsistencyChecks ==
    { "The analyses are consistent.",
      "The cost and market conclusions contradict each other.",
      "The analyses are inconsistent: the cost and market scores contradict each other." }

\* answers of the reasoning provider inside _research_query
ResearchReasonings ==
    { [analysis |-> "The sources are consistent and reliable.",
       relevance |-> "85/100 - directly answers the questions"],
      [analysis |-> "Some data is missing.",
       relevance |-> "Score: 40, limited usefulness"] }

\* the answers inside _research_query when every provider call fails
FailedResearchReasoning == [analysis |-> ErrorText, relevance |-> ErrorText]

\* texts the reasoning provider returns to the strategy prompt
StrategyResponses ==
    { "",
      "\nTechnology Analysis (Mock):\nKey technologies identified: APIs.\nConfidence: 70%\n",
      "Error in LLM reasoning: timeout",
      "Yes, external data is needed.",
      "Yes.\n1. Why now?",
      "What is the market size?",
      "Research is needed.\n1. What is the market size?\n2. Which competitors exist?",
      "Research plan:\n- What are the cost drivers?\n- What is the market size?\n- What is the market size?\n- Which competitors exist?" }

\* ---------------------------------------------- OrchestratorAgent planning
\* the default queries
DefaultQueries(project_name) ==
    << "Market size and trends for " \o project_name,
       "Technology requirements and maturity for " \o project_name,
       "Cost estimates for similar projects" >>

NeedsResearch(strategy_reasoning) ==
    \/ Contains(Split(Lower(strategy_reasoning), "\n")[1], "yes")
    \/ Contains(Lower(strategy_reasoning), "research")

\* the line of the response is a candidate query
IsQueryLine(line) ==
    \/ Contains(Lower(line), "query")
    \/ Contains(Lower(line), "search")
    \/ Contains(line, "?")

CleanLine(line) == LStrip(Strip(line, Whitespace), BulletChars)

RECURSIVE ExtractQueriesFrom(_)
ExtractQueriesFrom(lines) ==
    IF lines = <<>> THEN <<>>
    ELSE LET line == Head(lines)
             clean == CleanLine(line)
         IN  (IF IsQueryLine(line) /\ Len(clean) > MIN_QUERY_LEN /\ Contains(clean, "?")
              THEN <<clean>> ELSE <<>>)
             \o ExtractQueriesFrom(Tail(lines))

ExtractQueries(strategy_reasoning) ==
    IF NeedsResearch(strategy_reasoning)
    THEN ExtractQueriesFrom(Split(strategy_reasoning, "\n"))
    ELSE <<>>

\* variant of QueriesOrDefault without the default queries
QueriesOrDefault_nodefault(strategy_reasoning, project_name) ==
    ExtractQueries(strategy_reasoning)

\* the queries before truncation, defaults substituted
QueriesOrDefault(strategy_reasoning, project_name) ==
    IF NeedsResearch(strategy_reasoning) /\ ExtractQueries(strategy_reasoning) = <<>>
    THEN DefaultQueries(project_name)
    ELSE ExtractQueries(strategy_reasoning)

\* the AnalysisStrategy returned by _decide_strategy
DecideStrategy(strategy_reasoning, project_name) ==
    [ needs_external_research |-> NeedsResearch(strategy_reasoning),
      research_queries |-> Take(QueriesOrDefault(strategy_reasoning, project_name), MAX_QUERIES) ]

\* DecideStrategy tabulated over the responses of the model
StrategyOf == [r \in StrategyResponses \cup {ErrorText} |-> DecideStrategy(r, ProjectName)]

\* the queries the strategies of the model can ask for
KnownQueries == UNION {Range(StrategyOf[r].research_queries) : r \in StrategyResponses}

\* ------------------------------------------------------------ WebSearchTool
\* one search result; url and snippet are fixed by the title
Result(title, source) == [title |-> title, source |-> source]

\* the results _mock_search builds for the query before padding
TopicResults(query) ==
    LET q == Lower(query)
    IN  IF Contains(q, "market size")
        THEN << Result("Market Analysis: " \o query, "Market Research Firm"),
                Result("Industry Report 2024", "Industry Analysis") >>
        ELSE IF Contains(q, "competition") \/ Contains(q, "competitors")
        THEN << Result("Competitive Landscape Analysis", "Competitive Intelligence") >>
        ELSE IF Contains(q, "technology") \/ Contains(q, "technical")
        THEN << Result("Technology Stack Overview", "Tech Review"),
                Result("Technical Challenges and Solutions", "Engineering Blog") >>
        ELSE IF Contains(q, "cost") \/ Contains(q, "pricing") \/ Contains(q, "budget")
        THEN << Result("Development Cost Analysis", "Cost Estimation Service") >>
        ELSE IF Contains(q, "regulation") \/ Contains(q, "compliance")
        THEN << Result("Regulatory Requirements", "Legal Database") >>
        ELSE IF Contains(q, "ethical") \/ Contains(q, "privacy")
        THEN << Result("Ethical Considerations in Tech", "Ethics Institute") >>
        ELSE << Result("Information about: " \o query, "General Research") >>

\* while len(results) < num_results: append a generic result
RECURSIVE Pad(_, _)
Pad(results, num_results) ==
    IF Len(results) < num_results
    THEN Pad(Append(results,
                    Result("Additional resource " \o FormatInt(Len(results) + 1),
                           "Research Database")),
             num_results)
    ELSE results

\* WebSearchTool.search: always the mock search
Search(query, num_results) == Take(Pad(TopicResults(query), num_results), num_results)

\* ------------------------------------------------------------ ResearchAgent
\* BaseAgenticAgent._extract_score, in ten-thousandths
ExtractScore(text) ==
    IF SearchNumberBefore(text, "/100") # NoMatch
    THEN SearchNumberBefore(text, "/100") * 100
    ELSE IF SearchLabelledNumber(Lower(text), "score") # NoMatch
    THEN SearchLabelledNumber(Lower(text), "score") * 100
    ELSE 7000

\* variant of AssessRelevance that scores an empty result list like any other
AssessRelevance_always(results, relevance_text) == ExtractScore(relevance_text)

\* _assess_relevance; relevance_text is the provider's answer
AssessRelevance(results, relevance_text) ==
    IF results = <<>> THEN 0 ELSE ExtractScore(relevance_text)

Sources(results) == [i \in DOMAIN results |-> results[i].source]

\* variant of AssessResearchConfidence that returns the average of the two
\* terms, kept between 0.1 and 0.95
AssessResearchConfidence_average(results, analysis) ==
    IF results = <<>> THEN 1000
    ELSE LET num_sources == Cardinality(Range(Sources(results)))
             source_confidence == Min(num_sources * 1500, 3500)
             analysis_confidence ==
                 IF Contains(Lower(analysis), "unclear") \/ Contains(Lower(analysis), "missing")
                 THEN 4000
                 ELSE IF Contains(Lower(analysis), "consistent") \/ Contains(Lower(analysis), "clear")
                 THEN 7500
                 ELSE 6000
             total_confidence == (source_confidence + analysis_confidence) \div 2
         IN  Max(Min(total_confidence, 9500), 1000)

\* _assess_research_confidence, in ten-thousandths
AssessResearchConfidence(results, analysis) ==
    IF results = <<>> THEN 1000
    ELSE LET num_sources == Cardinality(Range(Sources(results)))
             source_confidence == Min(num_sources * 1500, 3500)
             analysis_confidence ==
                 IF Contains(Lower(analysis), "unclear") \/ Contains(Lower(analysis), "missing")
                 THEN 4000
                 ELSE IF Contains(Lower(analysis), "consistent") \/ Contains(Lower(analysis), "clear")
                 THEN 7500
                 ELSE 6000
             total_confidence == (source_confidence + analysis_confidence) \div 2 + 2000
         IN  Min(total_confidence, 9500)

\* the ResearchFindings _research_query builds from the search results;
\* reasoning holds the provider's analysis and relevance answers
ResearchFindingsOf(query, search_results, reasoning) ==
    [ query |-> query,
      findings |-> search_results,
      sources |-> Sources(search_results),
      confidence |-> AssessResearchConfidence(search_results, reasoning.analysis),
      relevance_score |-> AssessRelevance(search_results, reasoning.relevance),
      agent_reasoning |-> reasoning.analysis ]

\* _research_query with the shipped WebSearchTool
ResearchQuery(query, info_type, context, reasoning) ==
    ResearchFindingsOf(query, Search(query, NUM_RESULTS), reasoning)

\* ResearchQuery tabulated over the queries and provider answers of the model
\* (info_type and context only enter the prompts)
ResearchQueryOf ==
    [q \in KnownQueries |->
        [r \in ResearchReasonings \cup {FailedResearchReasoning} |->
            ResearchQuery(q, "comprehensive", "", r)]]

\* reasoning-provider calls of one _research_query: search strategy, analysis,
\* and relevance when there are results
ResearchLLMCalls(findings) == IF findings.findings = <<>> THEN 2 ELSE 3

\* self.findings_cache[query] = findings
CachePut(cache, query, findings) ==
    [q \in DOMAIN cache \cup {query} |-> IF q = query THEN findings ELSE cache[q]]

\* variant of AnalyzeQueries without the cache test: every query is researched
\* again and its cache entry overwritten
RECURSIVE AnalyzeQueries_recache(_, _, _, _, _)
AnalyzeQueries_recache(queries, cache, info_type, context, oracle) ==
    IF queries = <<>>
    THEN [all_findings |-> <<>>, cache |-> cache, llm_calls |-> 0, search_calls |-> 0]
    ELSE LET query == Head(queries)
             findings == oracle[query]
             rest == AnalyzeQueries_recache(Tail(queries), CachePut(cache, query, findings),
                                            info_type, context, oracle)
         IN  [rest EXCEPT !.all_findings = <<findings>> \o @,
                          !.llm_calls = @ + ResearchLLMCalls(findings),
                          !.search_calls = @ + 1]

\* variant of AnalyzeQueries whose cache hit continues without appending
RECURSIVE AnalyzeQueries_skiphit(_, _, _, _, _)
AnalyzeQueries_skiphit(queries, cache, info_type, context, oracle) ==
    IF queries = <<>>
    THEN [all_findings |-> <<>>, cache |-> cache, llm_calls |-> 0, search_calls |-> 0]
    ELSE LET query == Head(queries)
         IN  IF query \in DOMAIN cache
             THEN AnalyzeQueries_skiphit(Tail(queries), cache, info_type, context, oracle)
             ELSE LET findings == oracle[query]
                      rest == AnalyzeQueries_skiphit(Tail(queries),
                                                     CachePut(cache, query, findings),
                                                     info_type, context, oracle)
                  IN  [rest EXCEPT !.all_findings = <<findings>> \o @,
                                   !.llm_calls = @ + ResearchLLMCalls(findings),
                                   !.search_calls = @ + 1]

\* the loop of ResearchAgent.analyze over request.queries; oracle gives, for
\* each query, the findings _research_query returns when it is researched
RECURSIVE AnalyzeQueries(_, _, _, _, _)
AnalyzeQueries(queries, cache, info_type, context, oracle) ==
    IF queries = <<>>
    THEN [all_findings |-> <<>>, cache |-> cache, llm_calls |-> 0, search_calls |-> 0]
    ELSE LET query == Head(queries)
         IN  IF query \in DOMAIN cache
             THEN LET rest == AnalyzeQueries(Tail(queries), cache, info_type, context, oracle)
                  IN  [rest EXCEPT !.all_findings = <<cache[query]>> \o @]
             ELSE LET findings == oracle[query]
                      rest == AnalyzeQueries(Tail(queries), CachePut(cache, query, findings),
                                             info_type, context, oracle)
                  IN  [rest EXCEPT !.all_findings = <<findings>> \o @,
                                   !.llm_calls = @ + ResearchLLMCalls(findings),
                                   !.search_calls = @ + 1]

\* -------------------------------------------------- TechnologyAnalysisAgent
\* re.search(r'feasibility[:\s]+(\d+)%', s)
FeasibilityPercentAt(s, i) ==
    LET j == i + Len("feasibility")
        seps == SpanLen(s, j, ":" \o Whitespace)
        digs == SpanLen(s, j + seps, DigitChars)
    IN  IF /\ j - 1 <= Len(s)
           /\ SubSeq(s, i, j - 1) = "feasibility"
           /\ seps > 0
           /\ digs > 0
           /\ j + seps + digs <= Len(s)
           /\ CharAt(s, j + seps + digs) = "%"
        THEN ParseInt(SubSeq(s, j + seps, j + seps + digs - 1))
        ELSE NoMatch

SearchFeasibilityPercent(s) ==
    LET hits == {i \in 1..Len(s) : FeasibilityPercentAt(s, i) # NoMatch}
    IN  IF hits = {} THEN NoMatch ELSE FeasibilityPercentAt(s, SetMin(hits))

\* _extract_feasibility_score
ExtractFeasibilityScore(analysis) ==
    LET analysis_lower == Lower(analysis)
    IN  IF SearchLabelledNumber(analysis_lower, "score") # NoMatch
        THEN SearchLabelledNumber(analysis_lower, "score")
        ELSE IF SearchFeasibilityPercent(analysis_lower) # NoMatch
        THEN SearchFeasibilityPercent(analysis_lower)
        ELSE IF Contains(analysis_lower, "highly feasible") \/ Contains(analysis_lower, "excellent")
        THEN 85
        ELSE IF Contains(analysis_lower, "feasible") /\ ~Contains(analysis_lower, "not")
        THEN 70
        ELSE IF Contains(analysis_lower, "challenging") \/ Contains(analysis_lower, "difficult")
        THEN 45
        ELSE IF Contains(analysis_lower, "not feasible") \/ Contains(analysis_lower, "infeasible")
        THEN 25
        ELSE 60

\* a line of the response that identify_information_gaps takes as a list item
IsGapLine(line) ==
    \/ InChars(SubSeq(Strip(line, Whitespace), 1, Min(1, Len(Strip(line, Whitespace)))), "-*")
       /\ Strip(line, Whitespace) # ""
    \/ /\ Contains(line, ".")
       /\ \E k \in 1..Min(3, Len(line)) : InChars(CharAt(line, k), DigitChars)

RECURSIVE GapsFrom(_)
GapsFrom(lines) ==
    IF lines = <<>> THEN <<>>
    ELSE (IF IsGapLine(Head(lines)) /\ CleanLine(Head(lines)) # ""
          THEN <<CleanLine(Head(lines))>> ELSE <<>>)
         \o GapsFrom(Tail(lines))

\* BaseAgenticAgent.identify_information_gaps
IdentifyInformationGaps(response) == GapsFrom(Split(response, "\n"))

\* variant of ConfidenceScore with a base confidence of 0.8
ConfidenceScore_base80(maturity, gaps_count) ==
    LET base == 8000
        after_clarity ==
            IF Contains(Lower(maturity), "unclear") \/ Contains(Lower(maturity), "uncertain")
            THEN base - 1500 ELSE base
        after_gaps ==
            IF gaps_count > 3 THEN after_clarity - gaps_count * 500 ELSE after_clarity
    IN  Max(2000, Min(9500, after_gaps))

\* _calculate_confidence; confidence_score in ten-thousandths
ConfidenceScore(maturity, gaps_count) ==
    LET base == 7000
        after_clarity ==
            IF Contains(Lower(maturity), "unclear") \/ Contains(Lower(maturity), "uncertain")
            THEN base - 1500 ELSE base
        after_gaps ==
            IF gaps_count > 3 THEN after_clarity - gaps_count * 500 ELSE after_clarity
    IN  Max(2000, Min(9500, after_gaps))

CalculateConfidence(maturity, gaps_count) ==
    LET confidence_score == ConfidenceScore(maturity, gaps_count)
    IN  IF confidence_score > 9000 THEN VERY_HIGH
        ELSE IF confidence_score > 7000 THEN HIGH
        ELSE IF confidence_score > 5000 THEN MEDIUM
        ELSE IF confidence_score > 3000 THEN LOW
        ELSE VERY_LOW

\* the characters _structure_risks looks for in a line (ASCII ones)
RiskLineChars == "-*123"

RECURSIVE RisksFrom(_)
RisksFrom(lines) ==
    IF lines = <<>> THEN <<>>
    ELSE LET line == Head(lines)
             clean == CleanLine(line)
         IN  (IF /\ Strip(line, Whitespace) # ""
                 /\ \E k \in 1..Len(line) : InChars(CharAt(line, k), RiskLineChars)
                 /\ Len(clean) > MIN_RISK_LEN
              THEN << [ risk |-> clean,
                        severity |-> IF \/ Contains(Lower(clean), "critical")
                                        \/ Contains(Lower(clean), "major")
                                     THEN "high" ELSE "medium",
                        reasoning |-> "Identified through technical analysis" ] >>
              ELSE <<>>)
             \o RisksFrom(Tail(lines))

\* TechnologyAnalysisAgent._structure_risks
StructureRisks(risk_text) == Take(RisksFrom(Split(risk_text, "\n")), MAX_TECH_RISKS)

RECURSIVE OpportunitiesFrom(_)
OpportunitiesFrom(lines) ==
    IF lines = <<>> THEN <<>>
    ELSE LET line == Head(lines)
             clean == CleanLine(line)
         IN  (IF /\ \/ Contains(Lower(line), "opportunity")
                    \/ Contains(Lower(line), "advantage")
                    \/ Contains(Lower(line), "strength")
                 /\ Len(clean) > MIN_RISK_LEN
              THEN << [opportunity |-> clean, impact |-> "positive"] >>
              ELSE <<>>)
             \o OpportunitiesFrom(Tail(lines))

\* TechnologyAnalysisAgent._extract_opportunities
TechExtractOpportunities(analysis) ==
    Take(OpportunitiesFrom(Split(analysis, "\n")), MAX_TECH_OPPORTUNITIES)

\* TechnologyAnalysisAgent.analyze; reasoning holds the provider's texts
TechAnalyze(reasoning) ==
    [ dimension |-> "technology",
      score |-> ExtractFeasibilityScore(reasoning.final_analysis),
      confidence |-> CalculateConfidence(reasoning.maturity,
                                         Len(IdentifyInformationGaps(reasoning.gaps))),
      reasoning |-> reasoning.final_analysis,
      risks |-> StructureRisks(reasoning.risks),
      opportunities |-> TechExtractOpportunities(reasoning.final_analysis) ]

\* TechAnalyze tabulated over the provider texts of the model
TechAnalysisOf == [r \in StageTechReasonings \cup {FailedTechReasoning} |-> TechAnalyze(r)]

\* reasoning-provider calls of TechnologyAnalysisAgent.analyze: plan, maturity,
\* complexity, risks, timeline, gaps, synthesis (2) and reflection
TECH_LLM_CALLS == 9

\* ------------------------------------------- OrchestratorAgent, later phases
\* _simulate_dimension_analysis
SimulateDimensionAnalysis(dimension, analysis) ==
    LET score_match == SearchLabelledNumber(Lower(analysis), "score")
        score == IF score_match # NoMatch THEN score_match ELSE DEFAULT_SIM_SCORE
    IN  [ dimension |-> dimension,
          score |-> score,
          confidence |-> IF score > SIM_MEDIUM_ABOVE THEN MEDIUM ELSE LOW,
          reasoning |-> analysis,
          risks |-> << [ risk |-> dimension \o " risk identified", severity |-> "medium",
                         reasoning |-> "From analysis" ] >>,
          opportunities |-> << [ opportunity |-> dimension \o " opportunity",
                                 impact |-> "positive" ] >> ]

\* SimulateDimensionAnalysis tabulated over the provider texts of the model
SimAnalysisOf ==
    [d \in {"cost", "ethical", "market"} |->
        [r \in SimReasonings \cup StageSimReasonings |-> SimulateDimensionAnalysis(d, r)]]

\* ------------------------------------------------ Python floats (doubles)
\* A float is held as [num, den, err]: the double num/den + err/(den * 2^55).
\* num/den is the decimal that exact arithmetic gives, err what the roundings
\* of the doubles have added to it. Every double here is at least 1/8, so it
\* is a multiple of 2^-55 and err is a whole number.
Pow2(n) == <<1, 2, 4, 8, 16, 32, 64, 128, 256, 512, 1024, 2048, 4096, 8192, 16384, 32768>>[n + 1]

\* (a * 2^times) % modulus, thirteen doublings at a time
RECURSIVE DoubledMod(_, _, _)
DoubledMod(a, times, modulus) ==
    IF times <= 13 THEN (a * Pow2(times)) % modulus
    ELSE DoubledMod(((a % modulus) * 8192) % modulus, times - 13, modulus)

\* the e with 2^e <= num/den < 2^(e+1)
RECURSIVE Log2Floor(_, _)
Log2Floor(num, den) ==
    IF num >= 2 * den THEN Log2Floor(num, 2 * den) + 1
    ELSE IF num < den THEN Log2Floor(2 * num, den) - 1
    ELSE 0

\* the binary exponent of the value x: that of num/den, one less when num/den
\* is a power of two and err puts the value below it
BinaryExponent(x) ==
    LET e == Log2Floor(x.num, x.den)
    IN  IF /\ x.err < 0
           /\ x.num * Pow2(IF e < 0 THEN -e ELSE 0) = x.den * Pow2(IF e > 0 THEN e ELSE 0)
        THEN e - 1 ELSE e

\* the double of exponent e nearest the value v, ties to the even fraction:
\* with 52 fraction bits the doubles of exponent e are the multiples of
\* 2^(e-52), which is ulp in units of 1/(den * 2^55); w is the value modulo
\* 2 ulp
NearestDouble(v, e) ==
    LET ulp == v.den * Pow2(e + 3)
    IN  Only({ [v EXCEPT !.err =
                   IF 2 * (w % ulp) > ulp \/ (2 * (w % ulp) = ulp /\ w >= ulp)
                   THEN @ + (ulp - (w % ulp)) ELSE @ - (w % ulp)] :
               w \in {(Pow2(e + 3) * DoubledMod(v.num, 52 - e, 2 * v.den) + v.err) % (2 * ulp)} })

\* the double nearest the value x (IEEE 754 round to nearest even, the
\* rounding of every float operation of CPython)
RoundToDouble(x) ==
    Only({ IF v.num = 0 THEN v ELSE Only({ NearestDouble(v, e) : e \in {BinaryExponent(v)} }) :
           v \in {x} })

\* the float a decimal literal n/den denotes
Float(n, den) == RoundToDouble([num |-> n, den |-> den, err |-> 0])

\* k * x for a float k that is a whole number
FloatTimes(k, x) ==
    Only({ RoundToDouble([num |-> k * v.num, den |-> v.den, err |-> k * v.err]) : v \in {x} })

\* x / n for a whole number n
FloatOver(x, n) ==
    Only({ RoundToDouble([num |-> v.num, den |-> n * v.den, err |-> v.err]) : v \in {x} })

\* x + y before it is rounded
ExactPlus(x, y) ==
    Only({ [num |-> v[1].num + v[2].num, den |-> v[2].den, err |-> v[1].err + v[2].err] :
           v \in {<<x, y>>} })

\* x + y
FloatPlus(x, y) == RoundToDouble(ExactPlus(x, y))

RECURSIVE SequentialSum(_, _)
SequentialSum(start, xs) ==
    IF xs = <<>> THEN start ELSE SequentialSum(FloatPlus(start, Head(xs)), Tail(xs))

RECURSIVE ExactSum(_, _)
ExactSum(start, xs) ==
    IF xs = <<>> THEN start ELSE ExactSum(ExactPlus(start, Head(xs)), Tail(xs))

\* the algorithms of the builtin sum() over floats: CPython up to 3.11 adds
\* from left to right and rounds every addition; CPython from 3.12 on carries
\* the rounding of every addition in a compensation term that it adds at the
\* end, which for the short lists summed here gives the double nearest the
\* sum of the operands
Summations == {"sequential", "compensated"}

\* sum(xs) of a list of floats under one of the two algorithms; the start
\* value is the int 0
FloatSum(xs, summation) ==
    LET zero == [num |-> 0, den |-> 1, err |-> 0]
    IN  IF summation = "sequential" THEN SequentialSum(zero, xs)
        ELSE RoundToDouble(ExactSum(zero, xs))

Sign(n) == IF n > 0 THEN 1 ELSE IF n < 0 THEN -1 ELSE 0

\* A float is stored in the state as two numbers: the decimal num/den in units
\* of 1/scale, and the distance of the double from the double that decimal
\* denotes, in units of the last place (0: the float prints as the decimal and
\* is equal to it; -1: the next double below; 1: the next double above).
Decimal(x, scale) == Only({ (v.num * scale) \div v.den : v \in {x} })

Ulps(x) ==
    Only({ IF v[1].num = 0 THEN 0
           ELSE LET ulp == v[1].den * Pow2(BinaryExponent(v[2]) + 3)
                    distance == v[1].err - v[2].err
                IN  Sign(distance) * ((distance * Sign(distance) + ulp - 1) \div ulp) :
           v \in { <<w, Float(w.num, w.den)>> : w \in {x} } })

\* the two numbers a float is stored as
Stored(x, scale) == Only({ [decimal |-> Decimal(v, scale), ulps |-> Ulps(v)] : v \in {x} })

\* float < threshold for a float stored as decimal and ulps, and a threshold
\* given as a decimal in the same units
FloatLess(decimal, ulps, threshold) ==
    decimal < threshold \/ (decimal = threshold /\ ulps < 0)

\* threshold < float
FloatGreater(decimal, ulps, threshold) ==
    decimal > threshold \/ (decimal = threshold /\ ulps > 0)

\* the confidences table of _validate_analyses, in ten-thousandths
ConfidenceValue(level) ==
    CASE level = VERY_HIGH -> 9500
      [] level = HIGH -> 8000
      [] level = MEDIUM -> 6000
      [] level = LOW -> 4000
      [] level = VERY_LOW -> 2000

RECURSIVE SumSeq(_)
SumSeq(s) == IF s = <<>> THEN 0 ELSE Head(s) + SumSeq(Tail(s))

\* the floats of the confidences table
ConfidenceFloat == [level \in ConfidenceLevel |-> Float(ConfidenceValue(level), 10000)]

\* sum(confidences[a.confidence] for a in analyses) / len(analyses) for the
\* analyses of the given levels, a non-empty list
MeanConfidence(levels, summation) ==
    FloatOver(FloatSum([i \in DOMAIN levels |-> ConfidenceFloat[levels[i]]], summation),
              Len(levels))

\* MeanConfidence as it is stored, tabulated over the lists of four levels
MeanConfidenceOf ==
    [summation \in Summations |->
        [first \in ConfidenceLevel |-> [second \in ConfidenceLevel |->
            [third \in ConfidenceLevel |-> [fourth \in ConfidenceLevel |->
                Stored(MeanConfidence(<<first, second, third, fourth>>, summation), 10000)]]]]]

\* avg_confidence of _validate_analyses as it is stored, for a non-empty list
AvgConfidence(analyses, summation) ==
    IF Len(analyses) = 4
    THEN MeanConfidenceOf[summation][analyses[1].confidence][analyses[2].confidence]
                                    [analyses[3].confidence][analyses[4].confidence]
    ELSE Stored(MeanConfidence([i \in DOMAIN analyses |-> analyses[i].confidence], summation),
                10000)

IsConsistent(consistency_check) ==
    \/ Contains(Lower(consistency_check), "consistent")
    \/ Contains(Lower(consistency_check), "no contradiction")

\* IsConsistent tabulated over the provider texts of the model
IsConsistentOf == [c \in ConsistencyChecks \cup {ErrorText} |-> IsConsistent(c)]

\* variant of ValidateAnalyses whose needs_refinement includes the threshold
ValidateAnalyses_atmost(analyses, consistency_check, summation) ==
    Only({ [ confidence |-> avg_confidence.decimal,
             confidence_ulps |-> avg_confidence.ulps,
             is_consistent |-> IsConsistentOf[consistency_check],
             consistency_check |-> consistency_check,
             needs_refinement |-> ~FloatGreater(avg_confidence.decimal, avg_confidence.ulps,
                                            CONFIDENCE_THRESHOLD) ] :
           avg_confidence \in {AvgConfidence(analyses, summation)} })

\* the dict returned by _validate_analyses; confidence (in ten-thousandths)
\* and confidence_ulps hold the float avg_confidence
ValidateAnalyses(analyses, consistency_check, summation) ==
    Only({ [ confidence |-> avg_confidence.decimal,
             confidence_ulps |-> avg_confidence.ulps,
             is_consistent |-> IsConsistentOf[consistency_check],
             consistency_check |-> consistency_check,
             needs_refinement |-> FloatLess(avg_confidence.decimal, avg_confidence.ulps,
                                            CONFIDENCE_THRESHOLD) ] :
           avg_confidence \in {AvgConfidence(analyses, summation)} })

\* variant of ShouldRefine without the iteration cap
ShouldRefine_nocap(validation, iter) ==
    FloatLess(validation.confidence, validation.confidence_ulps, CONFIDENCE_THRESHOLD)

\* the condition of Phase 5 in analyze_project
ShouldRefine(validation, iter) ==
    /\ FloatLess(validation.confidence, validation.confidence_ulps, CONFIDENCE_THRESHOLD)
    /\ iter < MAX_ITERATIONS

\* variant of Weight with the weights of the two pairs exchanged
Weight_swapped(dimension) ==
    CASE dimension = "technology" -> 20
      [] dimension = "cost" -> 30
      [] dimension = "ethical" -> 30
      [] dimension = "market" -> 20
      [] OTHER -> 25

\* weights of _synthesize_final_decision, in hundredths
Weight(dimension) ==
    CASE dimension = "technology" -> 30
      [] dimension = "cost" -> 20
      [] dimension = "ethical" -> 20
      [] dimension = "market" -> 30
      [] OTHER -> 25

\* the dimensions in the order _coordinate_parallel_analysis analyzes them
Dimensions == <<"technology", "cost", "ethical", "market">>

\* weights.get(a.dimension, 0.25) as floats, for the dimensions of the analyzers
WeightFloat ==
    [dimension \in {Dimensions[i] : i \in DOMAIN Dimensions} |-> Float(Weight(dimension), 100)]

\* sum(weights.values())
WeightTotal ==
    [summation \in Summations |->
        FloatSum(<< WeightFloat["technology"], WeightFloat["cost"],
                    WeightFloat["ethical"], WeightFloat["market"] >>, summation)]

\* sum(a.score * weights.get(a.dimension, 0.25) for a in analyses) /
\* sum(weights.values()) for the analyses of the given dimensions and scores;
\* the divisor is the double of a whole number (1.0)
WeightedScore(dimensions, scores, summation) ==
    FloatOver(FloatSum([i \in DOMAIN scores |-> FloatTimes(scores[i], WeightFloat[dimensions[i]])],
                       summation),
              WeightTotal[summation].num \div WeightTotal[summation].den)

\* the scores the technology analyzer and the simulated analyzers give on the
\* provider texts of the model
TechScores == {TechAnalysisOf[r].score : r \in DOMAIN TechAnalysisOf}
SimScores ==
    UNION {{SimAnalysisOf[d][r].score : r \in DOMAIN SimAnalysisOf[d]} : d \in DOMAIN SimAnalysisOf}

\* WeightedScore as it is stored, tabulated over the lists of those scores
WeightedScoreOf ==
    [summation \in Summations |->
        [tech \in TechScores |-> [cost \in SimScores |->
            [ethical \in SimScores |-> [market \in SimScores |->
                Stored(WeightedScore(Dimensions, <<tech, cost, ethical, market>>, summation),
                       100)]]]]]

\* overall_score of _synthesize_final_decision as it is stored
OverallScore(analyses, summation) ==
    IF /\ [i \in DOMAIN analyses |-> analyses[i].dimension] = Dimensions
       /\ analyses[1].score \in TechScores
       /\ \A i \in 2..4 : analyses[i].score \in SimScores
    THEN WeightedScoreOf[summation][analyses[1].score][analyses[2].score]
                                  [analyses[3].score][analyses[4].score]
    ELSE Stored(WeightedScore([i \in DOMAIN analyses |-> analyses[i].dimension],
                              [i \in DOMAIN analyses |-> analyses[i].score], summation),
                100)

\* variant of Feasibility with exclusive lower bounds
Feasibility_exclusive(overall_score, ulps) ==
    IF FloatGreater(overall_score, ulps, 8000) THEN "HIGHLY_FEASIBLE"
    ELSE IF FloatGreater(overall_score, ulps, 6500) THEN "FEASIBLE"
    ELSE IF FloatGreater(overall_score, ulps, 5000) THEN "MODERATELY_FEASIBLE"
    ELSE IF FloatGreater(overall_score, ulps, 3500) THEN "CHALLENGING"
    ELSE "NOT_FEASIBLE"

\* the feasibility band of an overall score, a float stored in hundredths
\* and ulps
Feasibility(overall_score, ulps) ==
    IF ~FloatLess(overall_score, ulps, 8000) THEN "HIGHLY_FEASIBLE"
    ELSE IF ~FloatLess(overall_score, ulps, 6500) THEN "FEASIBLE"
    ELSE IF ~FloatLess(overall_score, ulps, 5000) THEN "MODERATELY_FEASIBLE"
    ELSE IF ~FloatLess(overall_score, ulps, 3500) THEN "CHALLENGING"
    ELSE "NOT_FEASIBLE"

\* f"-{(100 - score) / 10:.0f} points": the quotient is rounded half to even
\* and a negative quotient keeps its sign, also when it rounds to 0
ScoreImpact(score) ==
    LET v == 100 - score
        a == IF v < 0 THEN -v ELSE v
        q == a \div 10
        r == a % 10
        rounded == IF r > 5 \/ (r = 5 /\ q % 2 = 1) THEN q + 1 ELSE q
    IN  "-" \o (IF v < 0 THEN "-" ELSE "") \o FormatInt(rounded) \o " points"

\* the entry _extract_risks appends for one risk of an analysis
RiskEntry(analysis, risk) ==
    [ dimension |-> analysis.dimension,
      risk |-> IF "risk" \in DOMAIN risk THEN risk.risk ELSE "Risk identified",
      severity |-> IF "severity" \in DOMAIN risk THEN risk.severity ELSE "medium",
      score_impact |-> ScoreImpact(analysis.score) ]

\* the entry _extract_opportunities appends for one opportunity of an analysis
OpportunityEntry(analysis, opp) ==
    [ dimension |-> analysis.dimension,
      opportunity |-> IF "opportunity" \in DOMAIN opp THEN opp.opportunity
                      ELSE "Opportunity identified",
      impact |-> IF "impact" \in DOMAIN opp THEN opp.impact ELSE "positive" ]

\* the entries the inner loop of _extract_risks appends for one analysis
RisksOf(analysis, per_analysis) ==
    Only({ [k \in DOMAIN taken |-> RiskEntry(analysis, taken[k])] :
           taken \in {Take(analysis.risks, per_analysis)} })

\* all_risks after the loops of _extract_risks, per analysis at most per_analysis
RECURSIVE AllRisks(_, _)
AllRisks(analyses, per_analysis) ==
    IF analyses = <<>> THEN <<>>
    ELSE Only({ RisksOf(Head(list), per_analysis) \o AllRisks(Tail(list), per_analysis) :
                list \in {analyses} })

\* the entries the inner loop of _extract_opportunities appends for one analysis
OpportunitiesOf(analysis, per_analysis) ==
    Only({ [k \in DOMAIN taken |-> OpportunityEntry(analysis, taken[k])] :
           taken \in {Take(analysis.opportunities, per_analysis)} })

RECURSIVE AllOpportunities(_, _)
AllOpportunities(analyses, per_analysis) ==
    IF analyses = <<>> THEN <<>>
    ELSE Only({ OpportunitiesOf(Head(list), per_analysis)
                    \o AllOpportunities(Tail(list), per_analysis) :
                list \in {analyses} })

\* variant of ExtractRisks that returns all_risks without the final slice
ExtractRisks_untruncated(analyses) == AllRisks(analyses, RISKS_PER_ANALYSIS)

\* _extract_risks
ExtractRisks(analyses) == Take(AllRisks(analyses, RISKS_PER_ANALYSIS), MAX_CRITICAL_RISKS)

\* _extract_opportunities
ExtractOpportunities(analyses) ==
    Take(AllOpportunities(analyses, RISKS_PER_ANALYSIS), MAX_CRITICAL_RISKS)

\* {a.dimension: a.score for a in analyses}
DimensionScores(analyses) ==
    [d \in {analyses[i].dimension : i \in DOMAIN analyses} |->
        analyses[SetMax({i \in DOMAIN analyses : analyses[i].dimension = d})].score]

\* variant of SynthesizeFinalDecision whose confidence is HIGH from the
\* threshold on
SynthesizeFinalDecision_atleast(analyses, validation, iter, summation) ==
    Only({ [ overall_feasibility |-> Feasibility(overall_score.decimal, overall_score.ulps),
             overall_score |-> overall_score.decimal,
             overall_score_ulps |-> overall_score.ulps,
             confidence |-> IF ~FloatLess(validation.confidence, validation.confidence_ulps,
                                            DECISION_HIGH_ABOVE)
                            THEN HIGH ELSE MEDIUM,
             critical_risks |-> ExtractRisks(analyses),
             key_opportunities |-> ExtractOpportunities(analyses),
             dimension_scores |-> DimensionScores(analyses),
             analysis_quality |-> IF validation.is_consistent THEN "high" ELSE "moderate",
             assumptions_made |-> <<"Multi-agent analysis", "LLM-powered reasoning", "Iterative refinement">>,
             limitations |-> <<"Mock research data", "Limited to " \o FormatInt(iter) \o " iterations">> ] :
           overall_score \in {OverallScore(analyses, summation)} })

\* the FinalDecision of _synthesize_final_decision; overall_score (in
\* hundredths) and overall_score_ulps hold the float overall_score
SynthesizeFinalDecision(analyses, validation, iter, summation) ==
    Only({ [ overall_feasibility |-> Feasibility(overall_score.decimal, overall_score.ulps),
             overall_score |-> overall_score.decimal,
             overall_score_ulps |-> overall_score.ulps,
             confidence |-> IF FloatGreater(validation.confidence, validation.confidence_ulps,
                                            DECISION_HIGH_ABOVE)
                            THEN HIGH ELSE MEDIUM,
             critical_risks |-> ExtractRisks(analyses),
             key_opportunities |-> ExtractOpportunities(analyses),
             dimension_scores |-> DimensionScores(analyses),
             analysis_quality |-> IF validation.is_consistent THEN "high" ELSE "moderate",
             assumptions_made |-> <<"Multi-agent analysis", "LLM-powered reasoning", "Iterative refinement">>,
             limitations |-> <<"Mock research data", "Limited to " \o FormatInt(iter) \o " iterations">> ] :
           overall_score \in {OverallScore(analyses, summation)} })

\* ------------------------------------- heuristic pipeline (agent.py) scoring
\* round(overall, 2): overall is within a few units of the last place of a
\* multiple of 0.01, which is the decimal it is rounded to; the result is the
\* double that decimal denotes
RoundTo2(overall) == Float(Decimal(overall, 100), 100)

\* the floats 0.30 and 0.20 of the weights dict of calculate_overall_score
HeuristicWeight == [hundredths \in {20, 30} |-> Float(hundredths, 100)]

\* calculate_overall_score: the four products are added from left to right
CalculateOverallScore(tech_score, cost_score, ethical_score, market_score) ==
    RoundTo2(FloatPlus(FloatPlus(FloatPlus(FloatTimes(tech_score, HeuristicWeight[30]),
                                           FloatTimes(market_score, HeuristicWeight[30])),
                                 FloatTimes(cost_score, HeuristicWeight[20])),
                       FloatTimes(ethical_score, HeuristicWeight[20])))

\* determine_overall_feasibility of a score, a float stored in hundredths
\* and ulps
DetermineOverallFeasibility(score, ulps) ==
    IF ~FloatLess(score, ulps, 8000) THEN "HIGHLY FEASIBLE"
    ELSE IF ~FloatLess(score, ulps, 6500) THEN "FEASIBLE"
    ELSE IF ~FloatLess(score, ulps, 5000) THEN "MODERATELY FEASIBLE"
    ELSE IF ~FloatLess(score, ulps, 3500) THEN "CHALLENGING"
    ELSE "NOT FEASIBLE"

\* ------------------------------------------------------------------- state
VARIABLES
    pc,                 \* position of the analyze_project call in progress
    runs,               \* number of analyze_project calls started
    current_phase,      \* OrchestratorAgent.current_phase
    iteration,          \* OrchestratorAgent.iteration
    decisions,          \* len(OrchestratorAgent.decisions)
    all_analyses,       \* len(OrchestratorAgent.all_analyses)
    findings_cache,     \* ResearchAgent.findings_cache
    request,            \* locals of analyze_project ...
    strategy,
    research_findings,
    tech_request,       \* the AnalysisRequest built by _coordinate_parallel_analysis
    analyses,
    validation,
    final_decision,
    llm_calls,          \* reasoning-provider calls made by the call in progress
    search_calls,       \* WebSearchTool.search calls made by the call in progress
    research_calls,     \* ResearchAgent.analyze calls made by the call in progress (on an
                        \* agent that is driven directly: since its construction)
    refine_passes,      \* _refine_analyses calls made by the call in progress
    consumed,           \* <<phase, phase that produced a result it read>> of the call in progress
    provider,           \* state of the reasoning provider behind LLMTool.reason
    raised,             \* exception that ended the last call, "" when it returned
    heuristic,          \* result of the heuristic pipeline's scoring functions
    research_request,   \* the ResearchRequest of the last call made on a ResearchAgent
                        \* that is driven directly
    dive,               \* arguments and result of the last ResearchAgent.deep_dive call
    researched_under    \* history of those calls: the information type and context
                        \* under which each cache entry was researched

vars ==
    << pc, runs, current_phase, iteration, decisions, all_analyses, findings_cache,
       request, strategy, research_findings, tech_request, analyses, validation,
       final_decision, llm_calls, search_calls, research_calls, refine_passes, consumed,
       provider, raised, heuristic, research_request, dive, researched_under >>

research_state == <<research_request, dive, researched_under>>
orchestrator_state == <<current_phase, iteration, decisions, all_analyses>>
locals == <<request, strategy, research_findings, tech_request, analyses, validation, final_decision>>
counters == <<llm_calls, search_calls, research_calls, refine_passes>>

\* values of locals that are not bound yet
NoRequest == [project_description |-> "", project_name |-> ""]
NoStrategy == [needs_external_research |-> FALSE, research_queries |-> <<>>]
NoTechRequest == [research_findings |-> <<>>, iteration_number |-> -1]
NoValidation ==
    [ confidence |-> 0, confidence_ulps |-> 0, is_consistent |-> FALSE, consistency_check |-> "",
      needs_refinement |-> FALSE ]
NoDecision == [overall_feasibility |-> ""]
NoHeuristic == [feasibility |-> ""]
NoResearchRequest == [queries |-> <<>>, information_type |-> "", context |-> "", priority |-> ""]
NoFinding == [query |-> ""]
NoDive == [topic |-> ""]

\* states of the reasoning provider: answering, or failing on every call
Providers == {"ok", "failing"}

\* LLMTool.reason: one of the texts when the provider answers, the error text
\* (failed) when the provider raises
Reason(texts, failed) == IF provider = "failing" THEN {failed} ELSE texts

\* OrchestratorAgent.__init__ and ResearchAgent.__init__; no call in progress
Init ==
    /\ pc = "idle"
    /\ runs = 0
    /\ current_phase = PLANNING
    /\ iteration = 0
    /\ decisions = 0
    /\ all_analyses = 0
    /\ findings_cache = <<>>
    /\ request = NoRequest
    /\ strategy = NoStrategy
    /\ research_findings = <<>>
    /\ tech_request = NoTechRequest
    /\ analyses = <<>>
    /\ validation = NoValidation
    /\ final_decision = NoDecision
    /\ llm_calls = 0
    /\ search_calls = 0
    /\ research_calls = 0
    /\ refine_passes = 0
    /\ consumed = {}
    /\ provider \in Providers
    /\ raised = ""
    /\ heuristic = NoHeuristic
    /\ research_request = NoResearchRequest
    /\ dive = NoDive
    /\ researched_under = <<>>

\* an exception leaves the coroutine that is running: its locals are gone,
\* the attributes of the orchestrator and of the agents stay as they are
Raise(exception) ==
    /\ raised' = exception
    /\ pc' = "idle"
    /\ request' = NoRequest
    /\ strategy' = NoStrategy
    /\ research_findings' = <<>>
    /\ tech_request' = NoTechRequest
    /\ analyses' = <<>>
    /\ validation' = NoValidation
    /\ final_decision' = NoDecision
    /\ llm_calls' = 0
    /\ search_calls' = 0
    /\ research_calls' = 0
    /\ refine_passes' = 0
    /\ consumed' = {}
    /\ UNCHANGED <<runs, iteration, decisions, all_analyses, findings_cache,
                   provider, heuristic>>

\* variant of Plan that resets self.iteration at the start of the call
Plan_reset ==
    /\ UNCHANGED research_state
    /\ pc = "idle"
    /\ raised' = ""
    /\ UNCHANGED <<provider, heuristic>>
    /\ runs < MaxRuns
    /\ \E desc \in Descriptions, strategy_reasoning \in Reason(StrategyResponses, ErrorText) :
          /\ request' = [project_description |-> desc, project_name |-> ProjectName]
          /\ strategy' = StrategyOf[strategy_reasoning]
    /\ runs' = runs + 1
    /\ current_phase' = PLANNING
    /\ iteration' = 0
    /\ decisions' = decisions + 1
    /\ llm_calls' = 1
    /\ search_calls' = 0
    /\ research_calls' = 0
    /\ refine_passes' = 0
    /\ consumed' = {}
    /\ pc' = "planned"
    /\ UNCHANGED <<all_analyses, findings_cache, research_findings,
                   tech_request, analyses, validation, final_decision>>

\* analyze_project is called: Phase 1, _decide_strategy
Plan ==
    /\ UNCHANGED research_state
    /\ pc = "idle"
    /\ raised' = ""
    /\ UNCHANGED <<provider, heuristic>>
    /\ runs < MaxRuns
    /\ \E desc \in Descriptions, strategy_reasoning \in Reason(StrategyResponses, ErrorText) :
          /\ request' = [project_description |-> desc, project_name |-> ProjectName]
          /\ strategy' = StrategyOf[strategy_reasoning]
    /\ runs' = runs + 1
    /\ current_phase' = PLANNING
    /\ decisions' = decisions + 1
    /\ llm_calls' = 1
    /\ search_calls' = 0
    /\ research_calls' = 0
    /\ refine_passes' = 0
    /\ consumed' = {}
    /\ pc' = "planned"
    /\ UNCHANGED <<iteration, all_analyses, findings_cache, research_findings,
                   tech_request, analyses, validation, final_decision>>

\* variant of CoordinateResearch that does not test needs_external_research
CoordinateResearch_always ==
    /\ UNCHANGED research_state
    /\ pc = "planned"
    /\ UNCHANGED <<provider, raised, heuristic>>
    /\ \E reasoning \in Reason(ResearchReasonings, FailedResearchReasoning) :
          LET oracle == [q \in Range(strategy.research_queries) |-> ResearchQueryOf[q][reasoning]]
              done == AnalyzeQueries(strategy.research_queries, findings_cache,
                                         "comprehensive", request.project_description, oracle)
          IN  /\ research_findings' = done.all_findings
              /\ findings_cache' = done.cache
              /\ llm_calls' = llm_calls + done.llm_calls
              /\ search_calls' = search_calls + done.search_calls
    /\ current_phase' = INFORMATION_GATHERING
    /\ research_calls' = research_calls + 1
    /\ consumed' = consumed \cup {<<INFORMATION_GATHERING, PLANNING>>}
    /\ pc' = "gathered"
    /\ UNCHANGED <<runs, iteration, decisions, all_analyses, request, strategy,
                   tech_request, analyses, validation, final_decision, refine_passes>>

\* Phase 2 with strategy.needs_external_research: _coordinate_research
CoordinateResearch ==
    /\ UNCHANGED research_state
    /\ pc = "planned"
    /\ UNCHANGED <<provider, raised, heuristic>>
    /\ strategy.needs_external_research
    /\ \E reasoning \in Reason(ResearchReasonings, FailedResearchReasoning) :
          LET oracle == [q \in Range(strategy.research_queries) |-> ResearchQueryOf[q][reasoning]]
              done == AnalyzeQueries(strategy.research_queries, findings_cache,
                                         "comprehensive", request.project_description, oracle)
          IN  /\ research_findings' = done.all_findings
              /\ findings_cache' = done.cache
              /\ llm_calls' = llm_calls + done.llm_calls
              /\ search_calls' = search_calls + done.search_calls
    /\ current_phase' = INFORMATION_GATHERING
    /\ research_calls' = research_calls + 1
    /\ consumed' = consumed \cup {<<INFORMATION_GATHERING, PLANNING>>}
    /\ pc' = "gathered"
    /\ UNCHANGED <<runs, iteration, decisions, all_analyses, request, strategy,
                   tech_request, analyses, validation, final_decision, refine_passes>>

\* Phase 2 without research: research_findings = []
SkipResearch ==
    /\ UNCHANGED research_state
    /\ pc = "planned"
    /\ UNCHANGED <<provider, raised, heuristic>>
    /\ ~strategy.needs_external_research
    /\ research_findings' = <<>>
    /\ pc' = "gathered"
    /\ UNCHANGED <<runs, orchestrator_state, findings_cache, request, strategy,
                   tech_request, analyses, validation, final_decision, counters, consumed>>

\* variant of AnalysesOf whose last entry is a second cost analysis
AnalysesOf_dupcost(tech, cost, ethical, market) ==
    << TechAnalysisOf[tech],
       SimAnalysisOf["cost"][cost],
       SimAnalysisOf["ethical"][ethical],
       SimAnalysisOf["cost"][market] >>

\* the list built at the end of _coordinate_parallel_analysis from the texts
\* the provider gave the four analyzers
AnalysesOf(tech, cost, ethical, market) ==
    << TechAnalysisOf[tech],
       SimAnalysisOf["cost"][cost],
       SimAnalysisOf["ethical"][ethical],
       SimAnalysisOf["market"][market] >>

\* _coordinate_parallel_analysis with the provider texts drawn from the given sets
ParallelAnalysis(tech_texts, sim_texts) ==
    /\ UNCHANGED research_state
    /\ pc = "gathered"
    /\ UNCHANGED <<provider, raised, heuristic>>
    /\ tech_request' = [research_findings |-> research_findings, iteration_number |-> iteration]
    /\ \E tech \in tech_texts, cost \in sim_texts, ethical \in sim_texts, market \in sim_texts :
          analyses' = AnalysesOf(tech, cost, ethical, market)
    /\ current_phase' = PARALLEL_ANALYSIS
    /\ all_analyses' = all_analyses + 4
    /\ llm_calls' = llm_calls + TECH_LLM_CALLS + 3
    /\ consumed' = consumed \cup
          {<<PARALLEL_ANALYSIS, IF research_calls > 0 THEN INFORMATION_GATHERING ELSE PLANNING>>}
    /\ pc' = "analyzed"
    /\ UNCHANGED <<runs, iteration, decisions, findings_cache, request, strategy,
                   research_findings, validation, final_decision,
                   search_calls, research_calls, refine_passes>>

\* Phase 3: _coordinate_parallel_analysis, all four analyzers return
CoordinateParallelAnalysis ==
    ParallelAnalysis(Reason(TechReasonings, FailedTechReasoning), Reason(SimReasonings, ErrorText))

\* variant of AnalyzerRaises in which the failure of the market analyzer is
\* swallowed and the run goes on with the three analyses that returned
AnalyzerRaises_partial ==
    /\ UNCHANGED research_state
    /\ pc = "gathered"
    /\ provider = "ok"
    /\ current_phase' = PARALLEL_ANALYSIS
    /\ tech_request' = [research_findings |-> research_findings, iteration_number |-> iteration]
    /\ \E tech \in StageTechReasonings, sim \in StageSimReasonings :
          analyses' = SubSeq(AnalysesOf(tech, sim, sim, sim), 1, 3)
    /\ all_analyses' = all_analyses + 3
    /\ llm_calls' = llm_calls + TECH_LLM_CALLS + 2
    /\ pc' = "analyzed"
    /\ UNCHANGED <<runs, iteration, decisions, findings_cache, request, strategy,
                   research_findings, validation, final_decision,
                   search_calls, research_calls, refine_passes, consumed,
                   provider, raised, heuristic>>

\* what becomes of Phase 3 when the answer to one of its provider calls has
\* no text (LLMTool.reason returns None), by the number of the call: the
\* plan (1) is handed to DimensionAnalysis as agent_thought_process, which
\* pydantic rejects; the reflection (9) is searched with re.search; the
\* timeline (5) and the first synthesis answer (7) are only formatted into a
\* later prompt, and the analyzer returns; every other answer, those of the
\* three simulated analyzers (10 to 12) included, meets .lower() or .split()
PhaseThreeException(call) ==
    CASE call = 1 -> "ValidationError"
      [] call = 9 -> "TypeError"
      [] call \in {5, 7} -> ""
      [] OTHER -> "AttributeError"

\* Phase 3 when an awaited analyzer raises on an answer without a text:
\* nothing catches the exception, so it ends analyze_project before analyses
\* is bound and before self.all_analyses is extended
AnalyzerRaises ==
    /\ UNCHANGED research_state
    /\ pc = "gathered"
    /\ provider = "ok"
    /\ current_phase' = PARALLEL_ANALYSIS
    /\ \E call \in 1..(TECH_LLM_CALLS + 3) :
          /\ PhaseThreeException(call) # ""
          /\ Raise(PhaseThreeException(call))

\* Phase 4: _validate_analyses; the mean over an empty list divides by
\* len(analyses) = 0 before the provider is asked; sum() adds as the
\* interpreter at hand does
Validate ==
    /\ UNCHANGED research_state
    /\ pc = "analyzed"
    /\ current_phase' = VALIDATION
    /\ IF analyses = <<>>
       THEN Raise("ZeroDivisionError")
       ELSE /\ \E consistency_check \in Reason(ConsistencyChecks, ErrorText),
                  summation \in Summations :
                  validation' = ValidateAnalyses(analyses, consistency_check, summation)
            /\ llm_calls' = llm_calls + 1
            /\ consumed' = consumed \cup {<<VALIDATION, PARALLEL_ANALYSIS>>}
            /\ pc' = "validated"
            /\ UNCHANGED <<runs, iteration, decisions, all_analyses, findings_cache, request,
                           strategy, research_findings, tech_request, analyses, final_decision,
                           search_calls, research_calls, refine_passes,
                           provider, raised, heuristic>>

\* Phase 4 when the consistency answer has no text: consistency_check.lower()
\* raises after the mean was computed, and nothing catches it
ValidateRaises ==
    /\ UNCHANGED research_state
    /\ pc = "analyzed"
    /\ provider = "ok"
    /\ analyses # <<>>
    /\ current_phase' = VALIDATION
    /\ Raise("AttributeError")

\* variant of Refine under a while in place of the if, the pass not counted in
\* self.iteration (refine_passes stops counting past MAX_ITERATIONS + 1)
Refine_while ==
    /\ UNCHANGED research_state
    /\ pc = "validated"
    /\ UNCHANGED <<provider, raised, heuristic>>
    /\ ShouldRefine(validation, iteration)
    /\ current_phase' = REFINEMENT
    /\ analyses' = analyses
    /\ refine_passes' = Min(refine_passes + 1, MAX_ITERATIONS + 1)
    /\ consumed' = consumed \cup {<<REFINEMENT, PARALLEL_ANALYSIS>>, <<REFINEMENT, VALIDATION>>}
    /\ pc' = "validated"
    /\ UNCHANGED <<runs, iteration, decisions, all_analyses, findings_cache, request,
                   strategy, research_findings, tech_request, validation, final_decision,
                   llm_calls, search_calls, research_calls>>

\* variant of Refine without self.iteration += 1
Refine_nocount ==
    /\ UNCHANGED research_state
    /\ pc = "validated"
    /\ UNCHANGED <<provider, raised, heuristic>>
    /\ ShouldRefine(validation, iteration)
    /\ current_phase' = REFINEMENT
    /\ analyses' = analyses
    /\ refine_passes' = refine_passes + 1
    /\ consumed' = consumed \cup {<<REFINEMENT, PARALLEL_ANALYSIS>>, <<REFINEMENT, VALIDATION>>}
    /\ pc' = "refined"
    /\ UNCHANGED <<runs, iteration, decisions, all_analyses, findings_cache, request,
                   strategy, research_findings, tech_request, validation, final_decision,
                   llm_calls, search_calls, research_calls>>

\* variant of Refine that re-runs _coordinate_parallel_analysis, which leaves
\* current_phase at PARALLEL_ANALYSIS
Refine_reanalyze ==
    /\ UNCHANGED research_state
    /\ pc = "validated"
    /\ UNCHANGED <<provider, raised, heuristic>>
    /\ ShouldRefine(validation, iteration)
    /\ current_phase' = PARALLEL_ANALYSIS
    /\ iteration' = iteration + 1
    /\ analyses' = analyses
    /\ all_analyses' = all_analyses + 4
    /\ refine_passes' = refine_passes + 1
    /\ consumed' = consumed \cup {<<REFINEMENT, PARALLEL_ANALYSIS>>, <<REFINEMENT, VALIDATION>>}
    /\ pc' = "refined"
    /\ UNCHANGED <<runs, decisions, findings_cache, request, strategy,
                   research_findings, tech_request, validation, final_decision,
                   llm_calls, search_calls, research_calls>>

\* Phase 5 when the condition holds: _refine_analyses returns the analyses as they are
Refine ==
    /\ UNCHANGED research_state
    /\ pc = "validated"
    /\ UNCHANGED <<provider, raised, heuristic>>
    /\ ShouldRefine(validation, iteration)
    /\ current_phase' = REFINEMENT
    /\ iteration' = iteration + 1
    /\ analyses' = analyses
    /\ refine_passes' = refine_passes + 1
    /\ consumed' = consumed \cup {<<REFINEMENT, PARALLEL_ANALYSIS>>, <<REFINEMENT, VALIDATION>>}
    /\ pc' = "refined"
    /\ UNCHANGED <<runs, decisions, all_analyses, findings_cache, request, strategy,
                   research_findings, tech_request, validation, final_decision,
                   llm_calls, search_calls, research_calls>>

\* Phase 6: _synthesize_final_decision, after Phase 5 was run or skipped
Synthesize ==
    /\ UNCHANGED research_state
    /\ \/ pc = "refined"
       \/ pc = "validated" /\ ~ShouldRefine(validation, iteration)
    /\ \E summation \in Summations :
          final_decision' = SynthesizeFinalDecision(analyses, validation, iteration, summation)
    /\ UNCHANGED <<provider, raised, heuristic>>
    /\ current_phase' = SYNTHESIS
    /\ llm_calls' = llm_calls + 1
    /\ consumed' = consumed \cup
          {<<SYNTHESIS, IF pc = "refined" THEN REFINEMENT ELSE PARALLEL_ANALYSIS>>,
           <<SYNTHESIS, VALIDATION>>}
    /\ pc' = "synthesized"
    /\ UNCHANGED <<runs, iteration, decisions, all_analyses, findings_cache, request,
                   strategy, research_findings, tech_request, analyses, validation,
                   search_calls, research_calls, refine_passes>>

\* Phase 6 when the decision answer has no text: _extract_next_steps calls
\* reasoning.split() on it, and nothing catches the exception
SynthesizeRaises ==
    /\ UNCHANGED research_state
    /\ \/ pc = "refined"
       \/ pc = "validated" /\ ~ShouldRefine(validation, iteration)
    /\ provider = "ok"
    /\ current_phase' = SYNTHESIS
    /\ Raise("AttributeError")

\* return final_decision: the call ends and its locals are gone
Return ==
    /\ UNCHANGED research_state
    /\ pc = "synthesized"
    /\ heuristic' = NoHeuristic
    /\ UNCHANGED <<provider, raised>>
    /\ pc' = "idle"
    /\ request' = NoRequest
    /\ strategy' = NoStrategy
    /\ research_findings' = <<>>
    /\ tech_request' = NoTechRequest
    /\ analyses' = <<>>
    /\ validation' = NoValidation
    /\ final_decision' = NoDecision
    /\ llm_calls' = 0
    /\ search_calls' = 0
    /\ research_calls' = 0
    /\ refine_passes' = 0
    /\ consumed' = {}
    /\ UNCHANGED <<runs, orchestrator_state, findings_cache>>

\* the heuristic pipeline scores the same four dimension scores
HeuristicDecision ==
    /\ UNCHANGED research_state
    /\ pc = "synthesized"
    /\ heuristic = NoHeuristic
    /\ Len(analyses) = 4
    /\ \E overall_score \in {Stored(CalculateOverallScore(analyses[1].score, analyses[2].score,
                                                          analyses[3].score, analyses[4].score),
                                    100)} :
          heuristic' = [ overall_score |-> overall_score.decimal,
                         overall_score_ulps |-> overall_score.ulps,
                         feasibility |-> DetermineOverallFeasibility(overall_score.decimal,
                                                                     overall_score.ulps) ]
    /\ UNCHANGED <<pc, runs, orchestrator_state, findings_cache, locals, counters, consumed,
                   provider, raised>>

Next ==
    \/ Plan
    \/ CoordinateResearch
    \/ SkipResearch
    \/ CoordinateParallelAnalysis
    \/ Validate
    \/ Refine
    \/ Synthesize
    \/ Return

Spec == Init /\ [][Next]_vars

\* every step of a call in progress is eventually taken (the awaits return)
FairSpec == Spec /\ WF_vars(CoordinateResearch \/ SkipResearch \/ CoordinateParallelAnalysis
                            \/ Validate \/ Refine \/ Synthesize \/ Return)

\* ------------------------------------------ a ResearchAgent driven directly
\* contexts and information types of the requests
Contexts == {"schools", "hospitals"}
InformationTypes == {"comprehensive", "market"}
Topics == {"tutoring"}

\* request.queries of the direct analyze calls
DrawnQueryLists ==
    { <<"market size of tutoring">>,
      <<"cost of development", "market size of tutoring", "cost of development">> }

\* the answer of the mock provider to a prompt that contains "cost" and not
\* "technology", as the prompt of deep_dive does
MockCostAnalysis ==
    "\nCost Analysis (Mock):\nEstimated budget range: $200K - $800K\nBudget category: MEDIUM\nMain cost drivers: personnel (50%), infrastructure (25%), R&D (25%)\nROI potential: MEDIUM-HIGH based on market size\nFunding sources: Venture capital, angel investors, grants\nConfidence: 65%\n"

\* answers of the reasoning provider to the prompt of deep_dive: the answer of
\* the mock provider (no numbered line), six numbered queries, and a list
\* whose second item is empty
DiveResponses ==
    { MockCostAnalysis,
      "1. market size of tutoring\n2. \"competitors in tutoring\"\n3. technology stack\n4. cost of development\n5. privacy regulation\n6. adoption trends",
      "Queries:\n 1. cost of development\n2. " }

\* answers of the reasoning provider to synthesize_insights
Syntheses == { "Demand is growing and costs are moderate." }

\* number of results a retriever behind tools['web_search'] returns of the 5
\* asked for; the shipped WebSearchTool always returns NUM_RESULTS
RetrievedCounts == {0, 1, NUM_RESULTS}

\* the results of such a retriever
Retrieve(query, count) == Take(Search(query, NUM_RESULTS), count)

\* line.split('.', 1)[-1] of a line that contains '.'
AfterFirstDot(line) ==
    SubSeq(line, SetMin({i \in 1..Len(line) : CharAt(line, i) = "."}) + 1, Len(line))

RECURSIVE DiveQueriesFrom(_)
DiveQueriesFrom(lines) ==
    IF lines = <<>> THEN <<>>
    ELSE LET line == Head(lines)
             numbered ==
                 /\ Contains(line, ".")
                 /\ \E k \in 1..Min(DIVE_PREFIX_LEN, Len(line)) :
                       InChars(CharAt(line, k), DigitChars)
             query == IF numbered
                      THEN Strip(Strip(AfterFirstDot(line), Whitespace), QuoteChars)
                      ELSE ""
         IN  (IF numbered /\ query # "" THEN <<query>> ELSE <<>>)
             \o DiveQueriesFrom(Tail(lines))

\* the queries deep_dive extracts from the provider's response
DiveQueries(queries_response) == DiveQueriesFrom(Split(queries_response, "\n"))

\* DiveQueries tabulated over the responses of the model
DiveQueriesOf == [r \in DiveResponses \cup {ErrorText} |-> DiveQueries(r)]

\* the queries the direct calls can research
ResearchQueries ==
    UNION {Range(l) : l \in DrawnQueryLists} \cup UNION {Range(DiveQueriesOf[r]) : r \in DiveResponses}

\* ResearchFindingsOf tabulated over the queries, retrievers and provider
\* answers of the direct calls
ResearchFindingsTable ==
    [q \in ResearchQueries |->
        [count \in RetrievedCounts |->
            [r \in ResearchReasonings \cup {FailedResearchReasoning} |->
                ResearchFindingsOf(q, Retrieve(q, count), r)]]]

\* variant of MergeFindings that takes confidence and relevance from the
\* first sub-finding
MergeFindings_first(topic, findings_list, synthesized) ==
    [ query |-> "Deep dive: " \o topic,
      findings |-> << [synthesis |-> synthesized] >>,
      sources |-> UNION {Range(findings_list[i].sources) : i \in DOMAIN findings_list},
      confidence |-> findings_list[1].confidence,
      relevance_score |-> findings_list[1].relevance_score,
      agent_reasoning |-> synthesized ]

\* the ResearchFindings deep_dive returns for a non-empty findings_list;
\* list(set(all_sources)) has no defined order and is kept as the set
MergeFindings(topic, findings_list, synthesized) ==
    [ query |-> "Deep dive: " \o topic,
      findings |-> << [synthesis |-> synthesized] >>,
      sources |-> UNION {Range(findings_list[i].sources) : i \in DOMAIN findings_list},
      confidence |-> SetMax({findings_list[i].confidence : i \in DOMAIN findings_list}),
      relevance_score |-> SetMax({findings_list[i].relevance_score : i \in DOMAIN findings_list}),
      agent_reasoning |-> synthesized ]

\* the history after a call: the queries it researched are entered under the
\* information type and context of its request
ResearchedUnder(history, cache_after, research) ==
    [q \in DOMAIN cache_after |->
        IF q \in DOMAIN history THEN history[q]
        ELSE [information_type |-> research.information_type, context |-> research.context]]

\* ResearchAgent.__init__; the other components are not used
ResearchInit ==
    /\ pc = "idle"
    /\ runs = 0
    /\ current_phase = PLANNING
    /\ iteration = 0
    /\ decisions = 0
    /\ all_analyses = 0
    /\ findings_cache = <<>>
    /\ request = NoRequest
    /\ strategy = NoStrategy
    /\ research_findings = <<>>
    /\ tech_request = NoTechRequest
    /\ analyses = <<>>
    /\ validation = NoValidation
    /\ final_decision = NoDecision
    /\ llm_calls = 0
    /\ search_calls = 0
    /\ research_calls = 0
    /\ refine_passes = 0
    /\ consumed = {}
    /\ provider \in Providers
    /\ raised = ""
    /\ heuristic = NoHeuristic
    /\ research_request = NoResearchRequest
    /\ dive = NoDive
    /\ researched_under = <<>>

\* variant of ResearchAnalyze that researches every query again
ResearchAnalyze_recache ==
    /\ research_calls < MaxResearchCalls
    /\ \E queries \in DrawnQueryLists, information_type \in InformationTypes,
          context \in Contexts, count \in RetrievedCounts,
          reasoning \in Reason(ResearchReasonings, FailedResearchReasoning) :
          LET research == [ queries |-> queries, information_type |-> information_type,
                            context |-> context, priority |-> "normal" ]
              oracle == [q \in Range(queries) |-> ResearchFindingsTable[q][count][reasoning]]
              done == AnalyzeQueries_recache(queries, findings_cache, information_type, context, oracle)
          IN  /\ research_request' = research
              /\ research_findings' = done.all_findings
              /\ findings_cache' = done.cache
              /\ researched_under' = ResearchedUnder(researched_under, done.cache, research)
              /\ llm_calls' = done.llm_calls
              /\ search_calls' = done.search_calls
    /\ research_calls' = research_calls + 1
    /\ dive' = NoDive
    /\ raised' = ""
    /\ UNCHANGED <<pc, runs, orchestrator_state, request, strategy, tech_request, analyses,
                   validation, final_decision, refine_passes, consumed, provider, heuristic>>

\* ResearchAgent.analyze called with a request; llm_calls and search_calls
\* count the calls it makes
ResearchAnalyze ==
    /\ research_calls < MaxResearchCalls
    /\ \E queries \in DrawnQueryLists, information_type \in InformationTypes,
          context \in Contexts, count \in RetrievedCounts,
          reasoning \in Reason(ResearchReasonings, FailedResearchReasoning) :
          LET research == [ queries |-> queries, information_type |-> information_type,
                            context |-> context, priority |-> "normal" ]
              oracle == [q \in Range(queries) |-> ResearchFindingsTable[q][count][reasoning]]
              done == AnalyzeQueries(queries, findings_cache, information_type, context, oracle)
          IN  /\ research_request' = research
              /\ research_findings' = done.all_findings
              /\ findings_cache' = done.cache
              /\ researched_under' = ResearchedUnder(researched_under, done.cache, research)
              /\ llm_calls' = done.llm_calls
              /\ search_calls' = done.search_calls
    /\ research_calls' = research_calls + 1
    /\ dive' = NoDive
    /\ raised' = ""
    /\ UNCHANGED <<pc, runs, orchestrator_state, request, strategy, tech_request, analyses,
                   validation, final_decision, refine_passes, consumed, provider, heuristic>>

\* variant of DeepDive that returns a finding with confidence and relevance 0
\* when there is no sub-finding
DeepDive_guarded ==
    /\ research_calls < MaxResearchCalls
    /\ \E topic \in Topics, context \in Contexts,
          queries_response \in Reason(DiveResponses, ErrorText),
          count \in RetrievedCounts,
          reasoning \in Reason(ResearchReasonings, FailedResearchReasoning),
          synthesized \in Reason(Syntheses, ErrorText) :
          LET queries == Take(DiveQueriesOf[queries_response], MAX_DIVE_QUERIES)
              research == [ queries |-> queries, information_type |-> "comprehensive",
                            context |-> context, priority |-> "high" ]
              oracle == [q \in Range(queries) |-> ResearchFindingsTable[q][count][reasoning]]
              done == AnalyzeQueries(queries, findings_cache, "comprehensive", context, oracle)
              called == [topic |-> topic, context |-> context,
                         queries_response |-> queries_response, result |-> NoFinding]
          IN  /\ research_request' = research
              /\ research_findings' = done.all_findings
              /\ findings_cache' = done.cache
              /\ researched_under' = ResearchedUnder(researched_under, done.cache, research)
              /\ llm_calls' = 1 + done.llm_calls + 1
              /\ search_calls' = done.search_calls
              /\ raised' = ""
              /\ dive' = [called EXCEPT !.result =
                              IF done.all_findings = <<>>
                              THEN [ query |-> "Deep dive: " \o topic,
                                     findings |-> << [synthesis |-> synthesized] >>,
                                     sources |-> {}, confidence |-> 0, relevance_score |-> 0,
                                     agent_reasoning |-> synthesized ]
                              ELSE MergeFindings(topic, done.all_findings, synthesized)]
    /\ research_calls' = research_calls + 1
    /\ UNCHANGED <<pc, runs, orchestrator_state, request, strategy, tech_request, analyses,
                   validation, final_decision, refine_passes, consumed, provider, heuristic>>

\* ResearchAgent.deep_dive: one provider call for the queries, the analyze
\* path on the first MAX_DIVE_QUERIES of them, one provider call for the
\* synthesis, then the merge; max() of an empty findings_list raises ValueError
DeepDive ==
    /\ research_calls < MaxResearchCalls
    /\ \E topic \in Topics, context \in Contexts,
          queries_response \in Reason(DiveResponses, ErrorText),
          count \in RetrievedCounts,
          reasoning \in Reason(ResearchReasonings, FailedResearchReasoning),
          synthesized \in Reason(Syntheses, ErrorText) :
          LET queries == Take(DiveQueriesOf[queries_response], MAX_DIVE_QUERIES)
              research == [ queries |-> queries, information_type |-> "comprehensive",
                            context |-> context, priority |-> "high" ]
              oracle == [q \in Range(queries) |-> ResearchFindingsTable[q][count][reasoning]]
              done == AnalyzeQueries(queries, findings_cache, "comprehensive", context, oracle)
              called == [topic |-> topic, context |-> context,
                         queries_response |-> queries_response, result |-> NoFinding]
          IN  /\ research_request' = research
              /\ research_findings' = done.all_findings
              /\ findings_cache' = done.cache
              /\ researched_under' = ResearchedUnder(researched_under, done.cache, research)
              /\ llm_calls' = 1 + done.llm_calls + 1
              /\ search_calls' = done.search_calls
              /\ IF done.all_findings = <<>>
                 THEN /\ raised' = "ValueError"
                      /\ dive' = called
                 ELSE /\ raised' = ""
                      /\ dive' = [called EXCEPT !.result =
                                      MergeFindings(topic, done.all_findings, synthesized)]
    /\ research_calls' = research_calls + 1
    /\ UNCHANGED <<pc, runs, orchestrator_state, request, strategy, tech_request, analyses,
                   validation, final_decision, refine_passes, consumed, provider, heuristic>>

ResearchNext ==
    \/ ResearchAnalyze
    \/ DeepDive

ResearchSpec == ResearchInit /\ [][ResearchNext]_vars

\* ------------------------------------------- runs from the analysis phase on
\* lists of analyses handed to _validate_analyses directly: every combination
\* of confidence levels, and the empty list
DrawnAnalyses ==
    {<<>>} \cup
    { [i \in 1..4 |-> [dimension |-> Dimensions[i], score |-> 70,
                       confidence |-> levels[i], reasoning |-> "",
                       risks |-> <<>>, opportunities |-> <<>>]] :
        levels \in [1..4 -> ConfidenceLevel] }

\* risks and opportunities an analyzer may list; the keys are optional
\* (risk.get('risk', ...), opp.get('impact', ...))
DrawnRisks(dimension) ==
    << [risk |-> dimension \o " risk A", severity |-> "high"],
       [severity |-> "low"],
       [risk |-> dimension \o " risk C"] >>

DrawnOpportunities(dimension) ==
    << [opportunity |-> dimension \o " opportunity A", impact |-> "high"],
       [opportunity |-> dimension \o " opportunity B"],
       [impact |-> "moderate"] >>

\* scores of the analyses with drawn risk lists
DrawnScores == <<85, 75, 65, 104>>

\* lists of analyses with 0 to MaxRisks risks each, handed to
\* _validate_analyses and _synthesize_final_decision
DrawnRiskAnalyses ==
    { [i \in 1..4 |-> [dimension |-> Dimensions[i], score |-> DrawnScores[i],
                       confidence |-> MEDIUM, reasoning |-> "",
                       risks |-> Take(DrawnRisks(Dimensions[i]), counts[i]),
                       opportunities |->
                           Take(DrawnOpportunities(Dimensions[i]), MaxRisks - counts[i])]] :
        counts \in [1..4 -> 0..MaxRisks] }

\* dimension scores (technology, cost, ethical, market) handed to both
\* pipelines: the example of the specification, scores whose weighted mean is
\* a band threshold, and every combination of four values
DrawnScoreTuples ==
    { <<80, 60, 70, 90>>, <<13, 81, 70, 3>>, <<12, 81, 7, 96>>, <<35, 54, 85, 87>> }
        \cup ({0, 4, 57, 81} \X {0, 4, 57, 81} \X {0, 4, 57, 81} \X {0, 4, 57, 81})

\* lists of analyses with those scores
DrawnScoreAnalyses ==
    { [i \in 1..4 |-> [dimension |-> Dimensions[i], score |-> scores[i],
                       confidence |-> MEDIUM, reasoning |-> "",
                       risks |-> <<>>, opportunities |-> <<>>]] :
        scores \in DrawnScoreTuples }

\* a fresh orchestrator whose call has planned without research and is about
\* to analyze, or whose _validate_analyses is about to be called on a drawn list
StageInit ==
    /\ iteration = 0
    /\ all_analyses = 0
    /\ findings_cache = <<>>
    /\ strategy = NoStrategy
    /\ research_findings = <<>>
    /\ tech_request = NoTechRequest
    /\ validation = NoValidation
    /\ final_decision = NoDecision
    /\ search_calls = 0
    /\ research_calls = 0
    /\ refine_passes = 0
    /\ consumed = {}
    /\ provider = "ok"
    /\ raised = ""
    /\ heuristic = NoHeuristic
    /\ research_request = NoResearchRequest
    /\ dive = NoDive
    /\ researched_under = <<>>
    /\ current_phase = PLANNING
    /\ \/ /\ pc = "gathered"
          /\ runs = 1
          /\ decisions = 1
          /\ llm_calls = 1
          /\ request = [project_description |-> RealDescription, project_name |-> ProjectName]
          /\ analyses = <<>>
       \/ /\ pc = "analyzed"
          /\ runs = 0
          /\ decisions = 0
          /\ llm_calls = 0
          /\ request = NoRequest
          /\ analyses \in DrawnAnalyses \cup DrawnRiskAnalyses \cup DrawnScoreAnalyses

\* Phase 3 with the wider range of provider texts
StageParallelAnalysis == ParallelAnalysis(StageTechReasonings, StageSimReasonings)

StageNext ==
    \/ StageParallelAnalysis
    \/ AnalyzerRaises
    \/ ValidateRaises
    \/ SynthesizeRaises
    \/ Validate
    \/ Refine
    \/ Synthesize
    \/ HeuristicDecision
    \/ Return

StageSpec == StageInit /\ [][StageNext]_vars

\* a call is past Phase 2
PastGathering == pc \in {"gathered", "analyzed", "validated", "refined", "synthesized"}

\* a call is past Phase 3
PastAnalysis == pc \in {"analyzed", "validated", "refined", "synthesized"}

\* ------------------------------------------------------------------ claims

\* C1: after validation the orchestrator enters REFINEMENT exactly when the
\* validation needs refinement and iteration < max_iterations; otherwise the
\* next phase is SYNTHESIS and _refine_analyses is not run; REFINEMENT is
\* entered from nowhere else.
C1_RefineOnlyWhenNeeded ==
    [][ /\ pc = "validated" =>
             IF validation.needs_refinement /\ iteration < MAX_ITERATIONS
             THEN current_phase' = REFINEMENT /\ refine_passes' = refine_passes + 1
             ELSE current_phase' = SYNTHESIS /\ refine_passes' = refine_passes
        /\ (current_phase' = REFINEMENT /\ current_phase # REFINEMENT) =>
             /\ current_phase = VALIDATION
             /\ validation.needs_refinement
             /\ iteration < MAX_ITERATIONS ]_vars

\* a call went from VALIDATION to SYNTHESIS without refining although its
\* validation needed refinement: the iteration cap was reached
C1_Witness ==
    /\ pc = "synthesized"
    /\ current_phase = SYNTHESIS
    /\ validation.needs_refinement
    /\ refine_passes = 0
    /\ iteration = MAX_ITERATIONS

\* C2: with max_iterations = 3 and confidence below the threshold on every
\* validation, a call makes at most 3 refinement passes and then reaches
\* SYNTHESIS with a FinalDecision and returns; no call refines forever.
C2_BoundedRefinement ==
    /\ [](refine_passes <= MAX_ITERATIONS)
    /\ [][ pc' = "idle" =>
             (pc = "synthesized" /\ current_phase = SYNTHESIS /\ final_decision # NoDecision) ]_vars
    /\ (pc = "validated" /\ validation.confidence < CONFIDENCE_THRESHOLD) ~> (pc = "idle")

\* a call with confidence below the threshold refined and reached SYNTHESIS
C2_Witness ==
    /\ pc = "synthesized"
    /\ validation.confidence < CONFIDENCE_THRESHOLD
    /\ refine_passes = 1
    /\ final_decision # NoDecision

\* C3: every pass through REFINEMENT is followed by a VALIDATION pass: the
\* phase that follows REFINEMENT is VALIDATION, never SYNTHESIS.
C3_RevalidateAfterRefinement ==
    [][ (current_phase = REFINEMENT /\ current_phase' # REFINEMENT)
            => current_phase' = VALIDATION ]_vars

\* C4: iteration increases by exactly 1 on each pass through REFINEMENT, is
\* changed by no other step, never exceeds max_iterations, and REFINEMENT is
\* not entered when iteration = max_iterations.
C4_IterationCounter ==
    [][ /\ iteration' = IF current_phase' = REFINEMENT /\ current_phase # REFINEMENT
                        THEN iteration + 1 ELSE iteration
        /\ refine_passes' = refine_passes + 1 => iteration' = iteration + 1
        /\ iteration' <= MAX_ITERATIONS
        /\ iteration = MAX_ITERATIONS =>
             (current_phase' # REFINEMENT /\ refine_passes' <= refine_passes) ]_vars

\* a validation below the threshold with the counter at the cap
C4_Witness ==
    /\ pc = "validated"
    /\ validation.confidence < CONFIDENCE_THRESHOLD
    /\ iteration = MAX_ITERATIONS
    /\ runs > MAX_ITERATIONS

\* C5: whenever a call has returned its FinalDecision, current_phase is COMPLETE.
C5_CompleteAfterReturn ==
    (pc = "idle" /\ runs > 0) => current_phase = COMPLETE

\* C6: within one call current_phase never moves to an earlier phase, other
\* than from REFINEMENT back to VALIDATION, and no phase reads a result that
\* a later phase produced.
C6_PhaseOrder ==
    /\ [][ pc # "idle" =>
             \/ PhaseRank(current_phase') >= PhaseRank(current_phase)
             \/ current_phase = REFINEMENT /\ current_phase' = VALIDATION ]_vars
    /\ [](\A c \in consumed : PhaseRank(c[2]) <= PhaseRank(c[1]))

\* a call went through all six phases
C6_Witness ==
    /\ pc = "synthesized"
    /\ research_calls = 1
    /\ refine_passes = 1
    /\ <<SYNTHESIS, REFINEMENT>> \in consumed
    /\ <<PARALLEL_ANALYSIS, INFORMATION_GATHERING>> \in consumed

\* C7: without needs_external_research the research agent and the search
\* tool are not invoked, the analyzers get an empty findings list and
\* PARALLEL_ANALYSIS follows PLANNING; with it, INFORMATION_GATHERING runs
\* before PARALLEL_ANALYSIS.
C7_ResearchOnlyWhenNeeded ==
    /\ []( (PastGathering /\ ~strategy.needs_external_research) =>
             /\ research_calls = 0
             /\ search_calls = 0
             /\ research_findings = <<>>
             /\ PastAnalysis => tech_request.research_findings = <<>> )
    /\ []( (PastGathering /\ strategy.needs_external_research) => research_calls = 1 )
    /\ [][ (current_phase' = PARALLEL_ANALYSIS /\ current_phase # PARALLEL_ANALYSIS) =>
             current_phase = IF strategy.needs_external_research
                             THEN INFORMATION_GATHERING ELSE PLANNING ]_vars

\* the analyzers ran on an empty findings list right after PLANNING
C7_Witness ==
    /\ pc = "analyzed"
    /\ ~strategy.needs_external_research
    /\ tech_request.research_findings = <<>>
    /\ consumed = {<<PARALLEL_ANALYSIS, PLANNING>>}

\* C8: a call with an empty or whitespace-only description fails before
\* PLANNING: it makes no reasoning-provider call, changes no orchestrator
\* state and produces no FinalDecision.
C8_BlankDescriptionRejected ==
    (pc # "idle" /\ Strip(request.project_description, Whitespace) = "") =>
        /\ llm_calls = 0
        /\ decisions = 0
        /\ final_decision = NoDecision

\* C9: the strategy has at most 3 research queries, its query list is not
\* empty when needs_external_research is true, and INFORMATION_GATHERING
\* never receives an empty query list.
C9_StrategyQueries ==
    /\ Len(strategy.research_queries) <= 3
    /\ strategy.needs_external_research => strategy.research_queries # <<>>
    /\ research_calls > 0 => strategy.research_queries # <<>>

\* research was needed, no query was extracted and the defaults were taken
C9_Witness ==
    /\ pc = "gathered"
    /\ strategy.needs_external_research
    /\ strategy.research_queries = DefaultQueries(ProjectName)
    /\ research_calls = 1

\* C10: ResearchAgent.analyze returns one finding per query, in query order.
C10_OneFindingPerQuery ==
    (PastGathering /\ research_calls > 0) =>
        /\ Len(research_findings) = Len(strategy.research_queries)
        /\ \A i \in DOMAIN research_findings :
              research_findings[i].query = strategy.research_queries[i]

\* a query list with a repeated query, served by cache hits and misses
C10_Witness ==
    /\ pc = "gathered"
    /\ Len(research_findings) = 3
    /\ \E i, j \in DOMAIN strategy.research_queries :
          i < j /\ strategy.research_queries[i] = strategy.research_queries[j]
    /\ search_calls \in 1..2

\* C11: for one ResearchAgent, a query is searched once: a cache entry is
\* never removed or overwritten, one call of analyze searches exactly the
\* queries that were not cached, and every finding it returns is the cache
\* entry of its query (the same finding for the same query).
C11_CacheWriteOnce ==
    /\ [][ \A q \in DOMAIN findings_cache :
             q \in DOMAIN findings_cache' /\ findings_cache'[q] = findings_cache[q] ]_vars
    /\ [][ research_calls' = research_calls + 1 =>
             /\ search_calls' - search_calls =
                    Cardinality(DOMAIN findings_cache' \ DOMAIN findings_cache)
             /\ Range(strategy.research_queries) \subseteq DOMAIN findings_cache'
             /\ \A i \in DOMAIN research_findings' :
                    research_findings'[i] = findings_cache'[strategy.research_queries[i]] ]_vars

\* a later call of analyze was served from the cache alone
C11_Witness ==
    /\ pc = "gathered"
    /\ runs > 1
    /\ research_calls = 1
    /\ search_calls = 0
    /\ Len(research_findings) = 3
    /\ \A i \in 1..3 : research_findings[i] = findings_cache[strategy.research_queries[i]]

\* C12: every DimensionAnalysis of a run has 0 <= score <= 100 whatever text
\* the provider returns, and so has the overall score of the FinalDecision
\* (10000 hundredths).
C12_ScoresWithinRange ==
    /\ \A i \in DOMAIN analyses : analyses[i].score >= 0 /\ analyses[i].score <= 100
    /\ final_decision # NoDecision =>
          final_decision.overall_score >= 0 /\ final_decision.overall_score <= 10000

\* C13: the overall score is sum(score_d * weight_d) / sum(weights) with
\* weights technology 0.30, market 0.30, cost 0.20, ethical 0.20, whose sum
\* is 1: the float that is stored lies within two units of its last place of
\* the double of that weighted mean, under either summation; scores 80, 60,
\* 70, 90 (technology, cost, ethical, market) give 77 and FEASIBLE;
\* calculate_overall_score gives, for the same four scores, the weighted
\* mean itself, which is the stored float rounded to 2 decimals.
C13_WeightedOverallScore ==
    /\ \A summation \in Summations :
          WeightTotal[summation] = [num |-> 100, den |-> 100, err |-> 0]
    /\ (final_decision # NoDecision /\ Len(analyses) = 4) =>
          /\ final_decision.overall_score * (30 + 30 + 20 + 20) =
                 100 * ( analyses[1].score * 30 + analyses[4].score * 30
                       + analyses[2].score * 20 + analyses[3].score * 20 )
          /\ final_decision.overall_score_ulps \in -2..2
          /\ <<analyses[1].score, analyses[2].score, analyses[3].score, analyses[4].score>>
                 = <<80, 60, 70, 90>> =>
                 /\ final_decision.overall_score = 7700
                 /\ final_decision.overall_score_ulps = 0
                 /\ final_decision.overall_feasibility = "FEASIBLE"
    /\ heuristic # NoHeuristic =>
          /\ heuristic.overall_score = final_decision.overall_score
          /\ heuristic.overall_score_ulps = 0

\* the decision for technology 80, cost 60, ethical 70, market 90, scored by
\* both pipelines
C13_Witness ==
    /\ pc = "synthesized"
    /\ [i \in 1..4 |-> analyses[i].dimension] = Dimensions
    /\ [i \in 1..4 |-> analyses[i].score] = <<80, 60, 70, 90>>
    /\ final_decision.overall_score = 7700
    /\ heuristic # NoHeuristic

\* the midpoints very_low 0.20, low 0.40, medium 0.60, high 0.80, very_high
\* 0.95 of its analyses, as a float: the double of the mean or a double next
\* to it; needs_refinement holds exactly when the mean is strictly below the
\* threshold.
C15_MeanConfidence ==
    LET midpoint(level) ==
            CASE level = "very_low" -> 2000
              [] level = "low" -> 4000
              [] level = "medium" -> 6000
              [] level = "high" -> 8000
              [] level = "very_high" -> 9500
        total == SumSeq([i \in DOMAIN analyses |-> midpoint(analyses[i].confidence)])
    IN  validation # NoValidation =>
          /\ validation.confidence * Len(analyses) = total
          /\ validation.confidence_ulps \in -1..1
          /\ validation.needs_refinement <=> (total < CONFIDENCE_THRESHOLD * Len(analyses))

\* a validation of three high and one medium analyses, added in the order
\* that the sequential sum rounds upwards: the mean equals the threshold and
\* no refinement is needed
C15_Witness ==
    /\ pc = "validated"
    /\ [i \in 1..4 |-> analyses[i].confidence] = <<HIGH, HIGH, HIGH, MEDIUM>>
    /\ validation.confidence = CONFIDENCE_THRESHOLD
    /\ ~validation.needs_refinement

\* C16: validating an empty list of analyses raises a ConfigurationError and
\* no other kind of error.
C16_EmptyValidationError ==
    (raised # "" /\ current_phase = VALIDATION) => raised = "ConfigurationError"

\* C17: at every validation and at synthesis the analyses are exactly one per
\* dimension (technology, cost, ethical, market), and the keys of
\* dimension_scores are exactly those dimensions, each mapped to the score of
\* its analysis.
C17_OneAnalysisPerDimension ==
    /\ pc \in {"validated", "refined", "synthesized"} =>
          /\ Len(analyses) = 4
          /\ \A d \in Range(Dimensions) :
                Cardinality({i \in DOMAIN analyses : analyses[i].dimension = d}) = 1
    /\ pc = "synthesized" =>
          /\ DOMAIN final_decision.dimension_scores = Range(Dimensions)
          /\ \A i \in DOMAIN analyses :
                final_decision.dimension_scores[analyses[i].dimension] = analyses[i].score

\* a decision over four analyses whose cost and market scores differ
C17_Witness ==
    /\ pc = "synthesized"
    /\ Len(analyses) = 4
    /\ analyses[2].score # analyses[4].score
    /\ final_decision.dimension_scores["cost"] = analyses[2].score
    /\ final_decision.dimension_scores["market"] = analyses[4].score

\* C18: a refinement pass over analyses of which some have a confidence
\* level below the threshold re-invokes the analyzer of each such dimension
\* (the reasoning provider is called again) and replaces those entries.
C18_RefinementReanalyzes ==
    [][ ( /\ refine_passes' = refine_passes + 1
          /\ \E i \in DOMAIN analyses :
                ConfidenceValue(analyses[i].confidence) < CONFIDENCE_THRESHOLD )
        => llm_calls' > llm_calls ]_vars

\* C19: the decision of a run whose reasoning provider fails on every call
\* has, in its limitations or its assumptions, an entry that the decision of
\* a run with an answering provider does not have.
C19_DegradedProviderDocumented ==
    LET entries(decision) == Range(decision.limitations) \cup Range(decision.assumptions_made)
        healthy ==
            UNION { entries(SynthesizeFinalDecision(
                                AnalysesOf(tech, sim, sim, sim),
                                ValidateAnalyses(AnalysesOf(tech, sim, sim, sim), check, summation),
                                iteration, summation)) :
                    tech \in TechReasonings, sim \in SimReasonings, check \in ConsistencyChecks,
                    summation \in Summations }
    IN  (pc = "synthesized" /\ provider = "failing") =>
            entries(final_decision) \ healthy # {}

\* C20: within a run, VALIDATION starts only from the point where all four
\* analyzers (technology, cost, ethical, market) have returned; when one of
\* them fails, whatever the exception, the run ends with it in the
\* PARALLEL_ANALYSIS phase, no analysis is kept, and neither a validation nor
\* a decision is made, on a partial set or otherwise.
C20_JoinBeforeValidation ==
    /\ [][ (runs > 0 /\ current_phase' = VALIDATION /\ current_phase # VALIDATION) =>
              /\ pc = "analyzed"
              /\ [i \in DOMAIN analyses |-> analyses[i].dimension] = Dimensions ]_vars
    /\ [][ (pc = "gathered" /\ pc' # "analyzed") =>
              /\ raised' # "" /\ pc' = "idle"
              /\ current_phase' = PARALLEL_ANALYSIS
              /\ analyses' = <<>> /\ all_analyses' = all_analyses
              /\ validation' = NoValidation
              /\ final_decision' = NoDecision ]_vars
    /\ []((raised # "" /\ current_phase = PARALLEL_ANALYSIS) =>
              pc = "idle" /\ validation = NoValidation /\ final_decision = NoDecision)
    /\ []((runs > 0 /\ pc \in {"validated", "refined", "synthesized"}) =>
              Len(analyses) = 4 /\ raised = "")

\* a run ended by the failure of the technology analyzer on a plan answer
\* without a text, before any validation
C20_Witness ==
    /\ runs > 0
    /\ pc = "idle"
    /\ raised = "ValidationError"
    /\ current_phase = PARALLEL_ANALYSIS
    /\ all_analyses = 0
    /\ validation = NoValidation
    /\ final_decision = NoDecision

\* C21: the confidence of a FinalDecision is HIGH when the aggregate
\* confidence of the validation, the float that was stored, is strictly
\* greater than 0.75 and MEDIUM otherwise; it is no other level.
C21_DecisionConfidence ==
    pc = "synthesized" =>
        /\ final_decision.confidence \in {HIGH, MEDIUM}
        /\ final_decision.confidence = HIGH <=>
              \/ validation.confidence > 7500
              \/ validation.confidence = 7500 /\ validation.confidence_ulps > 0

\* a decision made on an aggregate confidence that is the float 0.75
C21_Witness ==
    /\ pc = "synthesized"
    /\ validation.confidence = 7500
    /\ validation.confidence_ulps = 0
    /\ final_decision.confidence = MEDIUM

\* C23: a validation whose consistency check reports an inconsistency or a
\* contradiction between dimensions has is_consistent false, and the decision
\* made on it has analysis_quality "moderate".
C23_InconsistencyFlagged ==
    LET check == Lower(validation.consistency_check)
        reported == \/ Contains(check, "inconsistent")
                    \/ Contains(check, "contradict") /\ ~Contains(check, "no contradiction")
    IN  (validation # NoValidation /\ reported) =>
            /\ ~validation.is_consistent
            /\ pc = "synthesized" => final_decision.analysis_quality = "moderate"

\* C27: in the pipeline no analysis has confidence HIGH or VERY_HIGH, the
\* aggregate confidence is at most 0.60, every decision has confidence
\* MEDIUM, and the first run on a fresh orchestrator makes exactly one
\* refinement pass.
C27_NeverConfident ==
    /\ \A i \in DOMAIN analyses : analyses[i].confidence \notin {HIGH, VERY_HIGH}
    /\ validation # NoValidation =>
          validation.confidence <= 6000 /\ validation.confidence < CONFIDENCE_THRESHOLD
    /\ pc = "synthesized" =>
          /\ final_decision.confidence = MEDIUM
          /\ runs = 1 => refine_passes = 1

\* the decision of a first run whose technology analysis had the base
\* confidence and whose other analyses scored above 50
C27_Witness ==
    /\ pc = "synthesized"
    /\ runs = 1
    /\ refine_passes = 1
    /\ \A i \in DOMAIN analyses : analyses[i].confidence = MEDIUM
    /\ validation.confidence = 6000
    /\ final_decision.confidence = MEDIUM

\* C28: self.iteration is not reset when analyze_project starts, so the
\* refinement passes of all runs on one orchestrator together number at most
\* max_iterations: a pass is made only below that count and raises it, and a
\* run that starts at the count makes no pass even when its confidence is
\* below the threshold.
C28_IterationsSharedAcrossRuns ==
    /\ [](iteration <= MAX_ITERATIONS)
    /\ [][pc' = "planned" => iteration' = iteration]_vars
    /\ [][refine_passes' = refine_passes + 1 =>
             iteration < MAX_ITERATIONS /\ iteration' = iteration + 1]_vars
    /\ []((pc = "synthesized" /\ runs > MAX_ITERATIONS) =>
             /\ refine_passes = 0
             /\ iteration = MAX_ITERATIONS
             /\ validation.confidence < CONFIDENCE_THRESHOLD)

\* a fourth run that went to its decision without refinement, its confidence
\* below the threshold
C28_Witness ==
    /\ pc = "synthesized"
    /\ runs = MAX_ITERATIONS + 1
    /\ iteration = MAX_ITERATIONS
    /\ refine_passes = 0
    /\ validation.needs_refinement

\* C24: the critical risks of a decision are at most 2 risks of each
\* analysis, in analysis order, each tagged with the dimension of its
\* analysis, cut to at most 5 entries; the key opportunities are built the
\* same way from the opportunities.
C24_TopRisksAndOpportunities ==
    LET first(i, field) == Min(2, Len(analyses[i][field]))
        before(i, field) == SumSeq([k \in 1..(i - 1) |-> first(k, field)])
        total(field) == SumSeq([k \in DOMAIN analyses |-> first(k, field)])
        built(entries, field, key) ==
            /\ Len(entries) = Min(5, total(field))
            /\ \A i \in DOMAIN analyses : \A j \in 1..first(i, field) :
                  before(i, field) + j <= 5 =>
                      LET entry == entries[before(i, field) + j]
                          item == analyses[i][field][j]
                      IN  /\ entry.dimension = analyses[i].dimension
                          /\ key \in DOMAIN item => entry[key] = item[key]
    IN  pc = "synthesized" =>
            /\ built(final_decision.critical_risks, "risks", "risk")
            /\ built(final_decision.key_opportunities, "opportunities", "opportunity")

\* a decision over analyses with 3 risks each: 8 are taken, 5 are kept
C24_Witness ==
    /\ pc = "synthesized"
    /\ \A i \in DOMAIN analyses : Len(analyses[i].risks) = 3
    /\ Len(analyses) = 4
    /\ Len(final_decision.critical_risks) = 5
    /\ final_decision.critical_risks[5].dimension = "ethical"

\* C22: deep_dive puts the first 5 extracted queries through
\* ResearchAgent.analyze (cached queries are answered from the cache, the
\* others researched and cached) and returns a finding whose confidence is
\* the maximum of the sub-findings' confidences, whose relevance is the
\* maximum of their relevance scores and whose sources are the union of
\* their sources, each once.
C22_DeepDiveMerge ==
    (dive # NoDive /\ dive.result # NoFinding) =>
        LET extracted == DiveQueries(dive.queries_response)
            subs == research_findings
        IN  /\ research_request.queries = SubSeq(extracted, 1, Min(5, Len(extracted)))
            /\ Len(subs) = Len(research_request.queries)
            /\ Len(subs) <= 5
            /\ \A i \in DOMAIN subs : subs[i] = findings_cache[research_request.queries[i]]
            /\ \A i \in DOMAIN subs : dive.result.confidence >= subs[i].confidence
            /\ \E i \in DOMAIN subs : dive.result.confidence = subs[i].confidence
            /\ \A i \in DOMAIN subs : dive.result.relevance_score >= subs[i].relevance_score
            /\ \E i \in DOMAIN subs : dive.result.relevance_score = subs[i].relevance_score
            /\ dive.result.sources =
                   {subs[i].sources[k] : <<i, k>> \in
                       {<<i, k>> \in (DOMAIN subs) \X (1..NUM_RESULTS) : k <= Len(subs[i].sources)}}
            /\ raised = ""

\* a deep dive whose provider listed six queries: five were researched, the
\* first came from the cache with a lower confidence than the others, and
\* the merged finding carries the higher confidence and the sources of all
C22_Witness ==
    /\ dive # NoDive
    /\ dive.result # NoFinding
    /\ Len(DiveQueries(dive.queries_response)) = 6
    /\ Len(research_findings) = 5
    /\ search_calls = 4
    /\ research_findings[1].confidence < research_findings[2].confidence
    /\ dive.result.confidence = research_findings[3].confidence
    /\ dive.result.confidence > research_findings[2].confidence
    /\ Cardinality(dive.result.sources) = 7

\* C25: when the retriever returns no result for a query, the finding built
\* for it has relevance 0 and confidence 0.1; the call returns it in the
\* query's place and caches it under the query, no exception is raised, and
\* the retriever was called once for each query the call researched.
C25_EmptyRetrieval ==
    [][ research_calls' = research_calls + 1 =>
          /\ \A i \in DOMAIN research_findings' :
                research_findings'[i].findings = <<>> =>
                    /\ research_findings'[i].relevance_score = 0
                    /\ research_findings'[i].confidence = 1000
                    /\ research_findings'[i].sources = <<>>
                    /\ research_findings'[i].query = research_request'.queries[i]
                    /\ research_request'.queries[i] \in DOMAIN findings_cache'
                    /\ findings_cache'[research_request'.queries[i]] = research_findings'[i]
                    /\ raised' = ""
          /\ search_calls' = Cardinality((DOMAIN findings_cache') \ DOMAIN findings_cache)
      ]_vars

\* an analyze call on three queries, two of them distinct, whose retriever
\* returned nothing: three findings with relevance 0 and confidence 0.1
\* returned, both cached, two retriever calls, no exception
C25_Witness ==
    /\ dive = NoDive
    /\ research_calls = 1
    /\ Len(research_findings) = 3
    /\ \A i \in DOMAIN research_findings :
          /\ research_findings[i].findings = <<>>
          /\ research_findings[i].relevance_score = 0
          /\ research_findings[i].confidence = 1000
          /\ findings_cache[research_request.queries[i]] = research_findings[i]
    /\ Cardinality(DOMAIN findings_cache) = 2
    /\ search_calls = 2
    /\ raised = ""

\* C26 as stated: for every non-empty retrieval result the confidence is the
\* average of the source term min(distinct sources * 0.15, 0.35) and the
\* analysis term (0.4, 0.6 or 0.75), kept within [0.1, 0.95].
C26_AveragedConfidence ==
    \A q \in DOMAIN findings_cache :
        findings_cache[q].findings # <<>> =>
            LET distinct == Cardinality(Range(findings_cache[q].sources))
                source_term == Min(distinct * 1500, 3500)
            IN  /\ \E analysis_term \in {4000, 6000, 7500} :
                      findings_cache[q].confidence =
                          Max(Min((source_term + analysis_term) \div 2, 9500), 1000)
                /\ findings_cache[q].confidence >= 1000
                /\ findings_cache[q].confidence <= 9500

\* C26: for every non-empty retrieval result the confidence is the average
\* of the source term min(distinct sources * 0.15, 0.35) and the analysis
\* term (0.4, 0.6 or 0.75) plus 0.2, capped at 0.95; it lies in
\* [0.475, 0.75], so within [0.1, 0.95]; of two findings with the same
\* analysis text the one with more distinct sources has no lower confidence.
C26_OffsetAveragedConfidence ==
    /\ \A q \in DOMAIN findings_cache :
          findings_cache[q].findings # <<>> =>
              LET distinct == Cardinality(Range(findings_cache[q].sources))
                  source_term == Min(distinct * 1500, 3500)
              IN  /\ \E analysis_term \in {4000, 6000, 7500} :
                        findings_cache[q].confidence =
                            Min((source_term + analysis_term) \div 2 + 2000, 9500)
                  /\ findings_cache[q].confidence >= 4750
                  /\ findings_cache[q].confidence <= 7500
    /\ \A q1, q2 \in DOMAIN findings_cache :
          ( /\ findings_cache[q1].findings # <<>>
            /\ findings_cache[q2].findings # <<>>
            /\ findings_cache[q1].agent_reasoning = findings_cache[q2].agent_reasoning
            /\ Cardinality(Range(findings_cache[q1].sources))
                  <= Cardinality(Range(findings_cache[q2].sources)) )
          => findings_cache[q1].confidence <= findings_cache[q2].confidence

\* a cache with a finding from one source and a finding from three distinct
\* sources under the same analysis text ("missing": analysis term 0.4):
\* confidences 0.475 and 0.575, where the plain averages are 0.275 and 0.375
C26_Witness ==
    \E q1, q2 \in DOMAIN findings_cache :
        /\ findings_cache[q1].agent_reasoning = "Some data is missing."
        /\ findings_cache[q2].agent_reasoning = "Some data is missing."
        /\ Cardinality(Range(findings_cache[q1].sources)) = 1
        /\ Cardinality(Range(findings_cache[q2].sources)) = 3
        /\ findings_cache[q1].confidence = 4750
        /\ findings_cache[q2].confidence = 5750

\* C29: the cache is looked up by the query alone: a call returns, for every
\* query that is already cached, the stored finding unchanged and leaves its
\* entry unchanged, whatever the context and information type of the
\* request; the retriever and the provider are called for the queries that
\* were not cached only.
C29_CacheKeyedByQuery ==
    [][ research_calls' = research_calls + 1 =>
          LET queries == research_request'.queries
              researched == (DOMAIN findings_cache') \ DOMAIN findings_cache
              without == {q \in researched : findings_cache'[q].findings = <<>>}
              around == IF dive' # NoDive THEN 2 ELSE 0
          IN  /\ \A i \in DOMAIN queries :
                    queries[i] \in DOMAIN findings_cache =>
                        /\ research_findings'[i] = findings_cache[queries[i]]
                        /\ findings_cache'[queries[i]] = findings_cache[queries[i]]
              /\ \A q \in DOMAIN findings_cache :
                    q \in DOMAIN findings_cache' /\ findings_cache'[q] = findings_cache[q]
              /\ researched \subseteq Range(queries)
              /\ search_calls' = Cardinality(researched)
              /\ llm_calls' = around + 2 * Cardinality(without)
                                     + 3 * Cardinality(researched \ without)
      ]_vars

\* an analyze call answered from the cache alone: the query was researched
\* under another context and another information type, its finding (built
\* on an empty retrieval) is returned as stored, and neither the retriever
\* nor the provider was called
C29_Witness ==
    /\ research_calls = 2
    /\ dive = NoDive
    /\ research_request.queries = <<"market size of tutoring">>
    /\ researched_under["market size of tutoring"].context # research_request.context
    /\ researched_under["market size of tutoring"].information_type
          # research_request.information_type
    /\ research_findings = <<findings_cache["market size of tutoring"]>>
    /\ research_findings[1].confidence = 1000
    /\ search_calls = 0
    /\ llm_calls = 0
    /\ raised = ""

\* C30: when no query is extracted from the provider's response to the
\* prompt of deep_dive, the call ends with a ValueError and returns no
\* ResearchFindings; by then the provider was called twice (for the queries
\* and for the synthesis of no insight) and nothing was researched.
C30_EmptyDiveRaises ==
    (dive # NoDive /\ DiveQueries(dive.queries_response) = <<>>) =>
        /\ raised = "ValueError"
        /\ dive.result = NoFinding
        /\ research_request.queries = <<>>
        /\ research_findings = <<>>
        /\ llm_calls = 2
        /\ search_calls = 0

\* a deep dive whose provider answered as the mock provider does: no line
\* starts with a number, the call raised after two provider calls
C30_Witness ==
    /\ dive # NoDive
    /\ dive.queries_response = MockCostAnalysis
    /\ provider = "ok"
    /\ raised = "ValueError"
    /\ dive.result = NoFinding
    /\ llm_calls = 2
    /\ search_calls = 0
    /\ findings_cache = <<>>

====
